---- MODULE Spec2Model ----
(***************************************************************************)
(* A model of the kscalelabs/pyfirmware control firmware:                  *)
(*   - firmware/shutdown.py : ShutdownManager (cleanup registry, signal    *)
(*     handler, exit hook), modelled with the call stack of each thread so *)
(*     that a signal handler re-entering the manager and the SystemExit it *)
(*     raises are explicit;                                                *)
(*   - firmware/main.py + firmware/can.py : the runner, the control loop   *)
(*     and the MotorDriver cleanups;                                       *)
(*   - firmware/can.py : CANInterface._receive_can_frame and the fault     *)
(*     classifier, get_actuator_feedback and the last-known-good cache;    *)
(*   - firmware/driver.py : the worker-pool MotorDriver.                   *)
(***************************************************************************)
EXTENDS Integers, Sequences, FiniteSets, TLC

VARIABLES
    \* ---- firmware/shutdown.py: ShutdownManager ----
    cleanup_callbacks,      \* self._cleanup_callbacks: the registered names, in order
    shutdown_in_progress,   \* self._shutdown_in_progress
    shutdown_complete,      \* self._shutdown_complete
    lock,                   \* ShutdownManager._lock: <<>> or <<thread, stack depth>> of the holder
    \* ---- the Python process ----
    stacks,                 \* thread -> its call stack (sequence of frames, the top is last)
    handler,                \* the handler installed for SIGINT and SIGTERM
    atexit_handlers,        \* atexit registrations, in registration order
    signals,                \* number of signals delivered so far
    exit_code,              \* -1 while the exit status is undecided
    auxCalls,               \* direct _execute_shutdown calls made by the second thread
    \* ---- observations of the manager (history variables) ----
    invoked,                \* sequence of [cb, call]: callback index invoked, by which _execute_shutdown call
    atTrigger,              \* the registrations present when the in-progress flag was flipped
    flipper,                \* the _execute_shutdown call that flipped the flag (0: none)
    failed,                 \* callback indexes whose invocation was left by an exception
    execCalls,              \* number of _execute_shutdown calls made so far
    armedAtTrigger,         \* whether the motors were enabled when the flag was flipped
    \* ---- firmware/main.py, firmware/can.py (MotorDriver), firmware/logger.py ----
    shutdown_requested,     \* main.py:24 global shutdown_requested
    motor_driver,           \* main.py:70 local of runner: "None" or "built"
    motors_enabled,         \* MotorDriver._motors_enabled
    last_scaling,           \* MotorDriver._last_scaling: "zero" or "pos"
    sockets_in_map,         \* CANInterface.sockets is non-empty
    sockets_closed,         \* the socket objects have been closed
    imu,                    \* the IMU reader: "None", "hiwonder", "bno055"
    shm_closed,             \* Hiwonder.shm has been closed
    logger_running,         \* Logger.running
    step_id,                \* main.py:110 step_id
    \* ---- observations of the firmware (history variables) ----
    pd_zero_sent,           \* the last PD command that went out on the bus had scaling 0
    zero_before_close,      \* ... and that was so when the sockets were closed
    close_done,             \* CANInterface.close has returned
    io_after_close,         \* socket I/O was attempted after CANInterface.close returned
    tick_fault,             \* a driver operation raised CriticalFaultError inside a tick
    step_after_fault,       \* a step of the control loop ran after that
    loop_signal,            \* a signal was delivered while the control loop was running
    tick_after_signal,      \* a tick was started after that
    \* ---- firmware/can.py: one call of CANInterface._receive_can_frame ----
    rx_pc,                  \* "recv": a socket read is due; "done": the call is over
    rx_expected,            \* the mux argument of the call
    rx_frames,              \* the frames the socket delivered to this call, in order
    rx_result,              \* how the call ended: a frame, None or an exception
    rx_classified,          \* how many times _process_fault_response ran in this call
    \* ---- MotorDriver.get_joint_angles_and_velocities (can.py, driver.py) ----
    driver_module,          \* which MotorDriver is in use: "can" or "driver"
    last_known_feedback,    \* self.last_known_feedback: actuator id -> joint record
    jd_answer,              \* what the last call returned: [returned, map]
    jd_seen,                \* the actuators that have had a successful feedback read
    jd_good,                \* actuator id -> the record of its most recent successful read
    jd_calls,               \* number of calls made
    \* ---- MotorDriver.startup_sequence (can.py), observed ----
    startup_obs,            \* what the startup check saw: [checked, found, max_angle]
    archive_bad,            \* get_onnx_sessions raised on the policy archive (utils.py:13-24)
    rd_obs,                 \* what the ramp-downs of a shutdown did: [ramps, raised_scale,
                            \*   disable_reached, ramps_at_disable, disable_due,
                            \*   disable_frames]
    log_records,            \* the step_id carried by every record the control loop queued,
                            \*   in the order of logging
    \* ---- can.py run as a program (can.py:407-415) ----
    can_pc,                 \* where main() of can.py stands
    max_scaling,            \* MotorDriver.max_scaling, in millionths
    actuators,              \* CANInterface.actuators: bus -> list of identifiers
    can_enabled,            \* MotorDriver._motors_enabled
    can_op,                 \* the last operation on the buses: [name, actions, log, returned]
    home_cmds,              \* the PD commands homing has issued: [scale, targets, enabled]
    sine_ticks,             \* completed iterations of sine_wave
    \* ---- one evaluation of a codec or conversion function ----
    calc_pc,                \* how far the evaluation has come
    calc_in,                \* the arguments
    calc_out,               \* the results so far, in order
    \* ---- the worker pool of driver.py's MotorDriver ----
    pool_queue,             \* the work items submitted and not yet taken, first in first out
    pool_workers,           \* worker thread -> the work item it runs, or <<>>
    pool_done,              \* the work items that have finished
    pool_raised,            \* the finished work items whose operation raised
    pool_caller,            \* the thread calling the MotorDriver: [pc, pending]
    pool_calls,             \* number of MotorDriver calls made
    \* ---- firmware/imu/hiwonder.py: the sampling process and the reader ----
    shm_lock,               \* self.shm_lock: the set of holders
    shm_record,             \* the shared-memory region: [timestamp, gyro, quaternion]
    imu_running,            \* self.running, the multiprocessing.Event
    imu_closed,             \* the reader's mmap has been closed
    imu_proc,               \* the sampling process: [pc, packets, gyro, quaternion, record]
    imu_reader,             \* the control loop's read: [pc, buf]
    imu_result,             \* what the last read returned
    imu_written,            \* the records written by a complete write (history)
    imu_reads,              \* number of reads made
    \* ---- firmware/logger.py: Logger ----
    log_running,            \* self.running
    log_queue,              \* self.queue: the records put and not yet taken
    log_unfinished,         \* self.queue.unfinished_tasks
    log_worker,             \* the worker thread: [pc, batch]
    log_file,               \* the records written to the file, in order
    log_shutdown,           \* the position of _shutdown
    log_puts,               \* number of log() calls made
    \* ---- firmware/commands: the Keyboard command source ----
    cmd,                    \* self.cmd: command name -> value, in hundredths
    last_cmd,               \* self.last_cmd, a missing name read as 0 (command_interface.py:65)
    kb_pc,                  \* the position of the reader thread in _read_input
    cmd_out,                \* what the last get_cmd returned, <<>> before the first call
    cmd_since,              \* reset_cmd was called since the last get_cmd returned
    \* ---- firmware/launchInterface: what the launch interface was told ----
    launch_obs,             \* how each permission step ended: the message awaited, or
                            \* "refused" for an abort or the timeout (history)
    \* ---- firmware/can.py: one exchange of get_actuator_feedback ----
    fb_pc,                  \* the position of the call
    fb_acts,                \* self.actuators: bus -> the identifiers found on it
    fb_k,                   \* receive calls made in the exchange
    fb_results,             \* results: identifier -> parsed feedback
    fb_received,            \* the frames read: [awaited, frame] (history)
    \* ---- firmware/can.py: CANInterface.close ----
    cl_pc,                  \* the position of close()
    cl_sockets,             \* the buses of self.sockets
    cl_actuators,           \* self.actuators
    cl_todo,                \* the sockets the loop of close() has still to visit
    cl_attempted,           \* bus -> what closing its socket did in this call (history)
    cl_calls,               \* calls of close() that have ended
    cl_after,               \* the maps left by each call that returned (history)
    \* ---- startup/process_manager.py: ProcessManager ----
    pm_processes,           \* self.processes: name -> the Popen object (its number)
    pm_status,              \* self.status: name -> [pid, running]
    pm_monitors,            \* the _monitor_process tasks that have not ended: [name, process]
    pm_alive,               \* the subprocesses that have not ended
    pm_started              \* the names the subprocesses were started under, in order (history)

mgrVars == <<cleanup_callbacks, shutdown_in_progress, shutdown_complete, lock>>
procVars == <<stacks, handler, atexit_handlers, signals, exit_code, auxCalls>>
obsVars == <<invoked, atTrigger, flipper, failed, execCalls, armedAtTrigger>>

\* the state of the application around the manager
fwVars == <<shutdown_requested, motor_driver, motors_enabled, last_scaling, sockets_in_map,
           sockets_closed, imu, shm_closed, logger_running, step_id>>
fwObs == <<pd_zero_sent, zero_before_close, close_done, io_after_close, tick_fault,
          step_after_fault, loop_signal, tick_after_signal>>
appVars == <<fwVars, fwObs>>

\* the state of one receive call and of the joint-data cache
rxVars == <<rx_pc, rx_expected, rx_frames, rx_result, rx_classified>>
jdVars == <<driver_module, last_known_feedback, jd_answer, jd_seen, jd_good, jd_calls>>
\* observations of the driver's operations
drvVars == <<startup_obs, archive_bad, rd_obs, log_records>>
\* the library state the runner and the cleanups never touch
canVars == <<can_pc, max_scaling, actuators, can_enabled, can_op, home_cmds, sine_ticks>>
calcVars == <<calc_pc, calc_in, calc_out>>
\* the state of the parts that run on their own
poolVars == <<pool_queue, pool_workers, pool_done, pool_raised, pool_caller, pool_calls>>
imuVars == <<shm_lock, shm_record, imu_running, imu_closed, imu_proc, imu_reader, imu_result,
            imu_written, imu_reads>>
logVars == <<log_running, log_queue, log_unfinished, log_worker, log_file, log_shutdown,
            log_puts>>
cmdVars == <<cmd, last_cmd, kb_pc, cmd_out, cmd_since>>
\* the state of the further parts that run on their own
launchVars == <<launch_obs>>
fbVars == <<fb_pc, fb_acts, fb_k, fb_results, fb_received>>
clVars == <<cl_pc, cl_sockets, cl_actuators, cl_todo, cl_attempted, cl_calls, cl_after>>
pmVars == <<pm_processes, pm_status, pm_monitors, pm_alive, pm_started>>
moreVars == <<cmdVars, launchVars, fbVars, clVars, pmVars>>
extVars == <<calcVars, poolVars, imuVars, logVars, moreVars>>
notCalc == <<poolVars, imuVars, logVars, moreVars>>
notPool == <<calcVars, imuVars, logVars, moreVars>>
notImu == <<calcVars, poolVars, logVars, moreVars>>
notLog == <<calcVars, poolVars, imuVars, moreVars>>
notCmd == <<calcVars, poolVars, imuVars, logVars, launchVars, fbVars, clVars, pmVars>>
\* the library state a permission step leaves alone
notLaunch == <<rxVars, jdVars, canVars, drvVars, calcVars, poolVars, imuVars, logVars, cmdVars,
              fbVars, clVars, pmVars>>
notFb == <<calcVars, poolVars, imuVars, logVars, cmdVars, launchVars, clVars, pmVars>>
notCl == <<calcVars, poolVars, imuVars, logVars, cmdVars, launchVars, fbVars, pmVars>>
notPm == <<calcVars, poolVars, imuVars, logVars, cmdVars, launchVars, fbVars, clVars>>
coreVars == <<mgrVars, procVars, obsVars, appVars, rxVars, jdVars, drvVars, canVars>>
libRest == <<rxVars, jdVars, canVars, extVars>>
libVars == <<libRest, drvVars>>

vars == <<mgrVars, procVars, obsVars, appVars, libVars>>

----------------------------------------------------------------------------
(* Bounds of the model *)

\* registrations made by the client program of the manager
MaxCallbacks == 2
\* SIGINT/SIGTERM deliveries in one run
MaxSignals == 2
\* direct _execute_shutdown calls made by a second thread
MaxAuxCalls == 1

Threads == {"main", "aux"}
Signals == {"SIGINT", "SIGTERM"}
\* the labels the client gives its registrations, in order
ClientLabels == <<"cbA", "cbB", "cbC", "cbD">>

NoLock == <<>>

----------------------------------------------------------------------------
(* Call stacks *)

\* fn: the function, pc: its position, i: a loop index or a registration index,
\* arg: a name argument, call: the number of an _execute_shutdown call
Frame(fn, pc, i, arg) == [fn |-> fn, pc |-> pc, i |-> i, arg |-> arg, call |-> 0]
ExecFrame(n) == [fn |-> "_execute_shutdown", pc |-> "enter", i |-> 0, arg |-> "", call |-> n]

Depth(t) == Len(stacks[t])
Top(t) == stacks[t][Depth(t)]
HasTop(t, fn, pc) == Depth(t) > 0 /\ Top(t).fn = fn /\ Top(t).pc = pc

SetTop(s, f) == [s EXCEPT ![Len(s)] = f]
Pop(s) == SubSeq(s, 1, Len(s) - 1)

\* The bottom frame of the main thread once the program has ended:
\* interpreter finalisation (join of the threads, then the exit hooks).
FinalizeFrame == Frame("Py_Finalize", "join_threads", 0, "")

ProcEnded == stacks["main"] = <<>>

----------------------------------------------------------------------------
(* Python exceptions and their propagation through a call stack *)

\* except Exception catches these and not SystemExit (a BaseException)
IsException(exc) == exc \in {"Exception", "CriticalFaultError", "OSError"}

\* The frames that are one invocation of a registered cleanup callback;
\* field i of such a frame is the index of the registration.
IsCallbackFrame(f) == f.fn \in {"callback", "_safe_ramp_down", "close", "Logger._shutdown"}

\* The positions of runner that lie inside its try block, main.py:72-169
RunnerTryPcs ==
    {"setup", "imu", "imu_permission", "md_discover", "in_register_cs", "md_reg_ramp",
     "in_register_rd", "md_startup", "motor_permission", "enable", "home",
     "policy_permission", "loop_test", "t_joints", "t_imu", "t_cmd", "t_policy",
     "t_action", "t_flush", "t_log", "t_sleep"}

\* The positions of runner that are the control loop, main.py:111-169
LoopPcs ==
    {"loop_test", "t_joints", "t_imu", "t_cmd", "t_policy", "t_action", "t_flush",
     "t_log", "t_sleep"}

\* The positions of _safe_ramp_down inside its try block, can.py:273-275
RampTryPcs == {"flush", "rd_read", "rd_step", "rd_zero"}

\* Whether frame f stops exception exc. isTop: the exception is raised by f
\* itself; otherwise it arrives from the frame above (a callee, or a signal
\* handler that interrupted f).
Catches(f, exc, isTop) ==
    CASE f.fn = "_execute_shutdown" ->
            \* shutdown.py:94-99  try: callback() except Exception
            ~isTop /\ f.pc = "in_callback" /\ IsException(exc)
      [] f.fn = "Py_Finalize" ->
            \* atexit runs every exit hook; what a hook raises is reported, not propagated
            ~isTop /\ f.pc = "in_handler"
      [] f.fn = "_safe_ramp_down" ->
            \* can.py:273-277  try: flush; ramp down  except Exception
            f.pc \in RampTryPcs /\ IsException(exc)
      [] f.fn = "ramp_down_motors" ->
            \* main.py:47-63  try: ... except Exception
            f.pc = "step" /\ IsException(exc)
      [] f.fn = "runner" ->
            \* main.py:72,171  try: ... finally: (the finally block runs, then the
            \* exception goes on)
            f.pc \in RunnerTryPcs
      [] f.fn = "main" ->
            \* main.py:189-231 and 243-249: whatever leaves runner or main, the
            \* interface is closed and the last statement is sys.exit(0)
            f.pc \in {"kinfer_path", "in_runner", "close_interface"}
      [] OTHER -> FALSE

\* (mutant) an exception raised inside the control loop is swallowed and the
\* loop goes on
M_RunnerAfterCatch(f, exc) ==
    IF f.pc \in {"t_joints", "t_imu", "t_cmd", "t_policy", "t_action", "t_flush", "t_log"}
       /\ exc \in {"Exception", "CriticalFaultError", "OSError"}
    THEN [f EXCEPT !.pc = "loop_test"]
    ELSE [f EXCEPT !.pc = "finally", !.arg = exc, !.i = 0]

\* main.py:72,171: runner has no except clause; whatever leaves the try block
\* runs the finally block, with the exception pending
RunnerAfterCatch(f, exc) == [f EXCEPT !.pc = "finally", !.arg = exc, !.i = 0]

\* The frame in which f continues once it has caught exc; the loop counters
\* of the loop that was left are dead and are reset.
AfterCatch(f, exc) ==
    CASE f.fn = "_execute_shutdown" -> [f EXCEPT !.pc = "loop"]
      [] f.fn = "Py_Finalize" -> [f EXCEPT !.pc = "next"]
      [] f.fn = "_safe_ramp_down" -> [f EXCEPT !.pc = "disable", !.arg = "", !.call = 0]
      [] f.fn = "ramp_down_motors" -> [f EXCEPT !.pc = "done", !.i = 0]
      [] f.fn = "runner" -> RunnerAfterCatch(f, exc)
      [] f.fn = "main" ->
            [f EXCEPT !.pc = IF f.pc = "close_interface" THEN "sys_exit" ELSE "close_interface"]
      [] OTHER -> f

RECURSIVE UnwindTo(_, _, _)
UnwindTo(s, exc, isTop) ==
    IF s = <<>> THEN <<>>
    ELSE IF Catches(s[Len(s)], exc, isTop) THEN SetTop(s, AfterCatch(s[Len(s)], exc))
    ELSE UnwindTo(Pop(s), exc, FALSE)

\* The pc at which a frame continues when the call it made returns.
ReturnTo(f) ==
    CASE f.fn = "_execute_shutdown" /\ f.pc = "in_callback" -> "loop"
      [] f.fn = "_signal_handler" /\ f.pc = "in_exec" -> "exit"
      [] f.fn = "Py_Finalize" /\ f.pc = "in_handler" -> "next"
      [] f.fn = "client" /\ f.pc = "in_register" -> "run"
      [] f.fn = "main" /\ f.pc = "in_runner" -> "close_interface"
      [] f.fn = "runner" /\ f.pc = "in_register_logger" -> "setup"
      [] f.fn = "runner" /\ f.pc = "in_register_cs" -> "md_reg_ramp"
      [] f.fn = "runner" /\ f.pc = "in_register_rd" -> "md_startup"
      [] f.fn = "runner" /\ f.pc = "in_ramp_down" -> "after_finally"
      [] OTHER -> f.pc

\* Thread t raises exc in its top frame. Frames are left up to the first one
\* that catches; a with-block that is left releases the manager's lock; an
\* exception no frame of the main thread catches ends the program.
Raise(t, exc) ==
    LET s == stacks[t]
        s2 == UnwindTo(s, exc, TRUE)
        left == {k \in 1..Len(s) : k > Len(s2)}
    IN  /\ stacks' = [stacks EXCEPT ![t] =
                        IF s2 = <<>> /\ t = "main" THEN <<FinalizeFrame>> ELSE s2]
        /\ lock' = IF lock # NoLock /\ lock[1] = t /\ lock[2] \in left THEN NoLock ELSE lock
        /\ failed' = failed \cup {s[k].i : k \in {j \in left : IsCallbackFrame(s[j])}}
        /\ exit_code' = IF s2 = <<>> /\ t = "main" /\ exit_code = -1
                        THEN (IF exc = "SystemExit(0)" THEN 0 ELSE 1)
                        ELSE exit_code

\* The top frame of thread t returns normally to its caller.
Return(t) ==
    LET s == Pop(stacks[t])
    IN  /\ stacks' = [stacks EXCEPT ![t] =
                        IF s = <<>> THEN <<>>
                        ELSE SetTop(s, [s[Len(s)] EXCEPT !.pc = ReturnTo(s[Len(s)])])]

\* The top frame calls: it waits at pc waitPc and frame f is pushed.
Call(t, waitPc, f) ==
    stacks' = [stacks EXCEPT ![t] = Append(SetTop(stacks[t], [Top(t) EXCEPT !.pc = waitPc]), f)]

----------------------------------------------------------------------------
(* firmware/shutdown.py *)

\* register_cleanup, shutdown.py:66  with self._lock:
RegisterAcquire(t) ==
    /\ HasTop(t, "register_cleanup", "acquire")
    /\ lock = NoLock
    /\ lock' = <<t, Depth(t)>>
    /\ stacks' = [stacks EXCEPT ![t] = SetTop(stacks[t], [Top(t) EXCEPT !.pc = "append"])]
    /\ UNCHANGED <<cleanup_callbacks, shutdown_in_progress, shutdown_complete>>
    /\ UNCHANGED <<handler, atexit_handlers, signals, exit_code, auxCalls>>
    /\ UNCHANGED obsVars
    /\ UNCHANGED appVars
    /\ UNCHANGED libVars

\* register_cleanup, shutdown.py:67-68  append under the lock, then leave the with-block
RegisterAppend(t) ==
    /\ HasTop(t, "register_cleanup", "append")
    /\ cleanup_callbacks' = Append(cleanup_callbacks, Top(t).arg)
    /\ lock' = NoLock
    /\ Return(t)
    /\ UNCHANGED <<shutdown_in_progress, shutdown_complete>>
    /\ UNCHANGED <<handler, atexit_handlers, signals, exit_code, auxCalls>>
    /\ UNCHANGED obsVars
    /\ UNCHANGED appVars
    /\ UNCHANGED libVars

\* _signal_handler, shutdown.py:72-74: print, then call self._execute_shutdown()
SignalHandlerStart ==
    /\ HasTop("main", "_signal_handler", "start")
    /\ Call("main", "in_exec", ExecFrame(execCalls + 1))
    /\ execCalls' = execCalls + 1
    /\ UNCHANGED mgrVars
    /\ UNCHANGED <<handler, atexit_handlers, signals, exit_code, auxCalls>>
    /\ UNCHANGED <<invoked, atTrigger, flipper, failed, armedAtTrigger>>
    /\ UNCHANGED appVars
    /\ UNCHANGED libVars

\* _signal_handler, shutdown.py:75: sys.exit(0) raises SystemExit in the
\* code the handler interrupted
SignalHandlerExit ==
    /\ HasTop("main", "_signal_handler", "exit")
    /\ Raise("main", "SystemExit(0)")
    /\ UNCHANGED <<cleanup_callbacks, shutdown_in_progress, shutdown_complete>>
    /\ UNCHANGED <<handler, atexit_handlers, signals, auxCalls>>
    /\ UNCHANGED <<invoked, atTrigger, flipper, execCalls, armedAtTrigger>>
    /\ UNCHANGED appVars
    /\ UNCHANGED libVars

\* _execute_shutdown, shutdown.py:79  with self._lock: (a threading.Lock, not re-entrant)
ExecAcquire(t) ==
    /\ HasTop(t, "_execute_shutdown", "enter")
    /\ lock = NoLock
    /\ lock' = <<t, Depth(t)>>
    /\ stacks' = [stacks EXCEPT ![t] = SetTop(stacks[t], [Top(t) EXCEPT !.pc = "check"])]
    /\ UNCHANGED <<cleanup_callbacks, shutdown_in_progress, shutdown_complete>>
    /\ UNCHANGED <<handler, atexit_handlers, signals, exit_code, auxCalls>>
    /\ UNCHANGED obsVars
    /\ UNCHANGED appVars
    /\ UNCHANGED libVars

\* (mutant) the in-progress flag is not consulted
M_AlreadyShuttingDown == shutdown_complete

\* The test made under the lock, shutdown.py:80-86: TRUE when this call must
\* return without running the callbacks.
AlreadyShuttingDown == shutdown_complete \/ shutdown_in_progress

\* _execute_shutdown, shutdown.py:80-88: return if already complete or in
\* progress, else flip the flag; either way the with-block releases the lock.
ExecCheck(t) ==
    /\ HasTop(t, "_execute_shutdown", "check")
    /\ lock' = NoLock
    /\ IF AlreadyShuttingDown
       THEN /\ Return(t)
            /\ UNCHANGED <<shutdown_in_progress, atTrigger, flipper, armedAtTrigger>>
       ELSE /\ shutdown_in_progress' = TRUE
            /\ stacks' = [stacks EXCEPT ![t] = SetTop(stacks[t], [Top(t) EXCEPT !.pc = "iter"])]
            /\ atTrigger' = IF flipper = 0 THEN 1..Len(cleanup_callbacks) ELSE atTrigger
            /\ flipper' = IF flipper = 0 THEN Top(t).call ELSE flipper
            /\ armedAtTrigger' = IF flipper = 0 THEN motors_enabled ELSE armedAtTrigger
    /\ UNCHANGED <<cleanup_callbacks, shutdown_complete>>
    /\ UNCHANGED <<handler, atexit_handlers, signals, exit_code, auxCalls>>
    /\ UNCHANGED <<invoked, failed, execCalls>>
    /\ UNCHANGED appVars
    /\ UNCHANGED libVars

\* _execute_shutdown, shutdown.py:93: reversed(self._cleanup_callbacks)
\* starts at the last registration present now
ExecIter(t) ==
    /\ HasTop(t, "_execute_shutdown", "iter")
    /\ stacks' = [stacks EXCEPT ![t] =
                    SetTop(stacks[t], [Top(t) EXCEPT !.pc = "loop", !.i = Len(cleanup_callbacks)])]
    /\ UNCHANGED mgrVars
    /\ UNCHANGED <<handler, atexit_handlers, signals, exit_code, auxCalls>>
    /\ UNCHANGED obsVars
    /\ UNCHANGED appVars
    /\ UNCHANGED libVars

\* The frame of the callback registered at index i: the firmware's cleanups
\* by their label (logger.py:27, can.py:264-265), else a client's callback.
CallbackFrame(i) ==
    CASE cleanup_callbacks[i] = "Motor ramp down" -> Frame("_safe_ramp_down", "test", i, "")
      [] cleanup_callbacks[i] = "CAN sockets" -> Frame("close", "close_socks", i, "")
      [] cleanup_callbacks[i] = "Logger" -> Frame("Logger._shutdown", "test", i, "")
      [] OTHER -> Frame("callback", "body", i, cleanup_callbacks[i])

\* _execute_shutdown, shutdown.py:93-96: the next callback in reverse order
\* is called; after the last one the loop is left
ExecLoop(t) ==
    /\ HasTop(t, "_execute_shutdown", "loop")
    /\ IF Top(t).i = 0
       THEN /\ stacks' = [stacks EXCEPT ![t] = SetTop(stacks[t], [Top(t) EXCEPT !.pc = "enter2"])]
            /\ UNCHANGED invoked
       ELSE /\ stacks' = [stacks EXCEPT ![t] =
                    Append(SetTop(stacks[t], [Top(t) EXCEPT !.pc = "in_callback", !.i = @ - 1]),
                           CallbackFrame(Top(t).i))]
            /\ invoked' = Append(invoked, [cb |-> Top(t).i, call |-> Top(t).call])
    /\ UNCHANGED mgrVars
    /\ UNCHANGED <<handler, atexit_handlers, signals, exit_code, auxCalls>>
    /\ UNCHANGED <<atTrigger, flipper, failed, execCalls, armedAtTrigger>>
    /\ UNCHANGED appVars
    /\ UNCHANGED libVars

\* _execute_shutdown, shutdown.py:101  with self._lock:
ExecAcquire2(t) ==
    /\ HasTop(t, "_execute_shutdown", "enter2")
    /\ lock = NoLock
    /\ lock' = <<t, Depth(t)>>
    /\ stacks' = [stacks EXCEPT ![t] = SetTop(stacks[t], [Top(t) EXCEPT !.pc = "set_complete"])]
    /\ UNCHANGED <<cleanup_callbacks, shutdown_in_progress, shutdown_complete>>
    /\ UNCHANGED <<handler, atexit_handlers, signals, exit_code, auxCalls>>
    /\ UNCHANGED obsVars
    /\ UNCHANGED appVars
    /\ UNCHANGED libVars

\* _execute_shutdown, shutdown.py:102-104: set the complete flag, release, return
ExecComplete(t) ==
    /\ HasTop(t, "_execute_shutdown", "set_complete")
    /\ shutdown_complete' = TRUE
    /\ lock' = NoLock
    /\ Return(t)
    /\ UNCHANGED <<cleanup_callbacks, shutdown_in_progress>>
    /\ UNCHANGED <<handler, atexit_handlers, signals, exit_code, auxCalls>>
    /\ UNCHANGED obsVars
    /\ UNCHANGED appVars
    /\ UNCHANGED libVars

----------------------------------------------------------------------------
(* The Python process: signals, end of the program, exit hooks *)

\* A SIGINT or SIGTERM arrives while ShutdownManager._signal_handler is the
\* installed handler (shutdown.py:52-53). Python runs the handler on the
\* main thread, on top of whatever that thread is executing, also when that
\* is another handler, a cleanup callback or an exit hook. The handler ends
\* in sys.exit(0) (shutdown.py:75), so the loops of the interrupted frames
\* never resume: Interrupted drops their counters.
Interrupted(f) ==
    CASE f.fn \in {"runner", "ramp_down_motors"} -> [f EXCEPT !.i = 0]
      [] f.fn = "_safe_ramp_down" -> [f EXCEPT !.call = 0, !.arg = ""]
      [] OTHER -> f

DeliverToManager(sig) ==
    /\ handler = "manager"
    /\ signals < MaxSignals
    /\ Depth("main") > 0
    /\ signals' = signals + 1
    /\ sig \in Signals   \* both are bound to the same handler; signum only names the message
    /\ stacks' = [stacks EXCEPT !["main"] =
                    Append([k \in 1..Len(@) |-> Interrupted(@[k])],
                           Frame("_signal_handler", "start", 0, ""))]
    /\ UNCHANGED mgrVars
    /\ UNCHANGED <<handler, atexit_handlers, exit_code, auxCalls>>
    /\ UNCHANGED obsVars

SignalToManager(sig) == DeliverToManager(sig) /\ UNCHANGED <<appVars, libVars>>

\* Interpreter finalisation waits for the other (non-daemon) threads before
\* it runs the exit hooks.
FinalizeJoin ==
    /\ HasTop("main", "Py_Finalize", "join_threads")
    /\ stacks["aux"] = <<>>
    /\ stacks' = [stacks EXCEPT !["main"] =
                    SetTop(@, [Top("main") EXCEPT !.pc = "next", !.i = Len(atexit_handlers)])]
    /\ UNCHANGED mgrVars
    /\ UNCHANGED <<handler, atexit_handlers, signals, exit_code, auxCalls>>
    /\ UNCHANGED obsVars
    /\ UNCHANGED appVars
    /\ UNCHANGED libVars

\* atexit runs the hooks last registered first; the manager's hook is
\* self._execute_shutdown (shutdown.py:49)
FinalizeRunManagerHook ==
    /\ HasTop("main", "Py_Finalize", "next")
    /\ Top("main").i > 0
    /\ atexit_handlers[Top("main").i] = "manager"
    /\ stacks' = [stacks EXCEPT !["main"] =
                    Append(SetTop(@, [Top("main") EXCEPT !.pc = "in_handler", !.i = @ - 1]),
                           ExecFrame(execCalls + 1))]
    /\ execCalls' = execCalls + 1
    /\ UNCHANGED mgrVars
    /\ UNCHANGED <<handler, atexit_handlers, signals, exit_code, auxCalls>>
    /\ UNCHANGED <<invoked, atTrigger, flipper, failed, armedAtTrigger>>
    /\ UNCHANGED appVars
    /\ UNCHANGED libVars

\* every exit hook has run: the process ends
FinalizeDone ==
    /\ HasTop("main", "Py_Finalize", "next")
    /\ Top("main").i = 0
    /\ stacks' = [stacks EXCEPT !["main"] = <<>>]
    /\ UNCHANGED mgrVars
    /\ UNCHANGED <<handler, atexit_handlers, signals, exit_code, auxCalls>>
    /\ UNCHANGED obsVars
    /\ UNCHANGED appVars
    /\ UNCHANGED libVars

----------------------------------------------------------------------------
(* A client program of the manager: it registers cleanups whose bodies are
   arbitrary, and ends normally, by an uncaught exception or by a signal. *)

\* the client calls register_cleanup(name, callback), shutdown.py:55
ClientRegister(name) ==
    /\ HasTop("main", "client", "run")
    /\ Top("main").i < MaxCallbacks
    /\ name = ClientLabels[Top("main").i + 1]
    /\ stacks' = [stacks EXCEPT !["main"] =
                    Append(SetTop(@, [Top("main") EXCEPT !.pc = "in_register", !.i = @ + 1]),
                           Frame("register_cleanup", "acquire", 0, name))]
    /\ UNCHANGED mgrVars
    /\ UNCHANGED <<handler, atexit_handlers, signals, exit_code, auxCalls>>
    /\ UNCHANGED obsVars
    /\ UNCHANGED appVars
    /\ UNCHANGED libVars

\* the client's main program returns: normal exit
ClientExit ==
    /\ HasTop("main", "client", "run")
    /\ stacks' = [stacks EXCEPT !["main"] = <<FinalizeFrame>>]
    /\ exit_code' = 0
    /\ UNCHANGED mgrVars
    /\ UNCHANGED <<handler, atexit_handlers, signals, auxCalls>>
    /\ UNCHANGED obsVars
    /\ UNCHANGED appVars
    /\ UNCHANGED libVars

\* the client's main program dies of an uncaught exception
ClientCrash ==
    /\ HasTop("main", "client", "run")
    /\ Raise("main", "Exception")
    /\ UNCHANGED <<cleanup_callbacks, shutdown_in_progress, shutdown_complete>>
    /\ UNCHANGED <<handler, atexit_handlers, signals, auxCalls>>
    /\ UNCHANGED <<invoked, atTrigger, flipper, execCalls, armedAtTrigger>>
    /\ UNCHANGED appVars
    /\ UNCHANGED libVars

\* a second thread calls _execute_shutdown directly while the program runs
AuxCall ==
    /\ stacks["aux"] = <<>>
    /\ auxCalls < MaxAuxCalls
    /\ Depth("main") > 0 /\ stacks["main"][1].fn = "client"
    /\ auxCalls' = auxCalls + 1
    /\ execCalls' = execCalls + 1
    /\ stacks' = [stacks EXCEPT !["aux"] = <<ExecFrame(execCalls + 1)>>]
    /\ UNCHANGED mgrVars
    /\ UNCHANGED <<handler, atexit_handlers, signals, exit_code>>
    /\ UNCHANGED <<invoked, atTrigger, flipper, failed, armedAtTrigger>>
    /\ UNCHANGED appVars
    /\ UNCHANGED libVars

\* the body of a client's cleanup returns
CallbackReturn(t) ==
    /\ HasTop(t, "callback", "body")
    /\ Return(t)
    /\ UNCHANGED mgrVars
    /\ UNCHANGED <<handler, atexit_handlers, signals, exit_code, auxCalls>>
    /\ UNCHANGED obsVars
    /\ UNCHANGED appVars
    /\ UNCHANGED libVars

\* the body of a client's cleanup raises an Exception
CallbackRaise(t) ==
    /\ HasTop(t, "callback", "body")
    /\ Raise(t, "Exception")
    /\ UNCHANGED <<cleanup_callbacks, shutdown_in_progress, shutdown_complete>>
    /\ UNCHANGED <<handler, atexit_handlers, signals, auxCalls>>
    /\ UNCHANGED <<invoked, atTrigger, flipper, execCalls, armedAtTrigger>>
    /\ UNCHANGED appVars
    /\ UNCHANGED libVars

\* State after get_shutdown_manager() built the singleton, shutdown.py:38-53:
\* no callbacks, flags down, exit hook and signal handlers installed.
InitManager ==
    /\ cleanup_callbacks = <<>>
    /\ shutdown_in_progress = FALSE
    /\ shutdown_complete = FALSE
    /\ lock = NoLock
    /\ handler = "manager"
    /\ atexit_handlers = <<"manager">>

InitObs ==
    /\ invoked = <<>>
    /\ atTrigger = {}
    /\ flipper = 0
    /\ failed = {}
    /\ execCalls = 0
    /\ armedAtTrigger = FALSE

\* Nothing of the firmware has been built.
InitFirmwareIdle ==
    /\ shutdown_requested = FALSE
    /\ motor_driver = "None"
    /\ motors_enabled = FALSE
    /\ last_scaling = "zero"
    /\ sockets_in_map = FALSE
    /\ sockets_closed = FALSE
    /\ imu = "None"
    /\ shm_closed = FALSE
    /\ logger_running = FALSE
    /\ step_id = 0
    /\ pd_zero_sent = FALSE
    /\ zero_before_close = FALSE
    /\ close_done = FALSE
    /\ io_after_close = FALSE
    /\ tick_fault = FALSE
    /\ step_after_fault = FALSE
    /\ loop_signal = FALSE
    /\ tick_after_signal = FALSE

\* No operation of the driver has been observed.
InitDrvIdle ==
    /\ startup_obs = [checked |-> FALSE, found |-> FALSE, max_angle |-> 0]
    /\ archive_bad = FALSE
    /\ rd_obs = [ramps |-> <<>>, raised_scale |-> FALSE, disable_reached |-> FALSE,
                 ramps_at_disable |-> <<>>, disable_due |-> FALSE, disable_frames |-> 0]
    /\ log_records = <<>>

\* main() of can.py is not running.
InitCanIdle ==
    /\ can_pc = "idle"
    /\ max_scaling = 1000000
    /\ actuators = [bus \in {} |-> <<>>]
    /\ can_enabled = FALSE
    /\ can_op = [name |-> "none", actions |-> {}, log |-> <<>>, returned |-> FALSE]
    /\ home_cmds = <<>>
    /\ sine_ticks = 0

\* No function is being evaluated.
InitCalcIdle ==
    /\ calc_pc = "idle"
    /\ calc_in = <<>>
    /\ calc_out = <<>>

\* No MotorDriver of driver.py has been built.
InitPoolIdle ==
    /\ pool_queue = <<>>
    /\ pool_workers = <<>>
    /\ pool_done = {}
    /\ pool_raised = {}
    /\ pool_caller = [pc |-> "none", pending |-> <<>>]
    /\ pool_calls = 0

\* No Hiwonder has been constructed.
InitImuIdle ==
    /\ shm_lock = {}
    /\ shm_record = <<>>
    /\ imu_running = FALSE
    /\ imu_closed = FALSE
    /\ imu_proc = [pc |-> "none"]
    /\ imu_reader = [pc |-> "none"]
    /\ imu_result = <<>>
    /\ imu_written = {}
    /\ imu_reads = 0

\* No Logger has been constructed.
InitLogIdle ==
    /\ log_running = FALSE
    /\ log_queue = <<>>
    /\ log_unfinished = 0
    /\ log_worker = [pc |-> "none"]
    /\ log_file = <<>>
    /\ log_shutdown = "none"
    /\ log_puts = 0

\* No command source has been constructed.
InitCmdIdle ==
    /\ cmd = <<>>
    /\ last_cmd = <<>>
    /\ kb_pc = "none"
    /\ cmd_out = <<>>
    /\ cmd_since = FALSE

\* No permission has been asked for.
InitLaunchIdle == launch_obs = [motor |-> "", policy |-> ""]

\* No feedback exchange is being followed.
InitFbIdle ==
    /\ fb_pc = "none"
    /\ fb_acts = <<>>
    /\ fb_k = 0
    /\ fb_results = <<>>
    /\ fb_received = <<>>

\* No close() is being followed.
InitClIdle ==
    /\ cl_pc = "none"
    /\ cl_sockets = {}
    /\ cl_actuators = <<>>
    /\ cl_todo = <<>>
    /\ cl_attempted = <<>>
    /\ cl_calls = 0
    /\ cl_after = <<>>

\* No ProcessManager has been built.
InitPmIdle ==
    /\ pm_processes = <<>>
    /\ pm_status = <<>>
    /\ pm_monitors = {}
    /\ pm_alive = {}
    /\ pm_started = <<>>

InitMoreIdle == InitCmdIdle /\ InitLaunchIdle /\ InitFbIdle /\ InitClIdle /\ InitPmIdle

InitExtIdle == InitCalcIdle /\ InitPoolIdle /\ InitImuIdle /\ InitLogIdle /\ InitMoreIdle

\* No receive call and no joint-data read is under way.
InitLibIdle ==
    /\ InitDrvIdle
    /\ InitCanIdle
    /\ InitExtIdle
    /\ rx_pc = "idle"
    /\ rx_expected = 0
    /\ rx_frames = <<>>
    /\ rx_result = [kind |-> "pending"]
    /\ rx_classified = 0
    /\ driver_module = "can"
    /\ last_known_feedback = <<>>
    /\ jd_answer = [returned |-> FALSE, map |-> <<>>]
    /\ jd_seen = {}
    /\ jd_good = <<>>
    /\ jd_calls = 0

InitClient ==
    /\ InitLibIdle
    /\ InitManager
    /\ InitObs
    /\ InitFirmwareIdle
    /\ stacks = [t \in Threads |-> IF t = "main" THEN <<Frame("client", "run", 0, "")>> ELSE <<>>]
    /\ signals = 0
    /\ exit_code = -1
    /\ auxCalls = 0

ManagerStep(t) ==
    \/ RegisterAcquire(t)
    \/ RegisterAppend(t)
    \/ ExecAcquire(t)
    \/ ExecCheck(t)
    \/ ExecIter(t)
    \/ ExecLoop(t)
    \/ ExecAcquire2(t)
    \/ ExecComplete(t)

ProcessStep ==
    \/ SignalHandlerStart
    \/ SignalHandlerExit
    \/ FinalizeJoin
    \/ FinalizeRunManagerHook
    \/ FinalizeDone

NextClient ==
    \/ \E t \in Threads : ManagerStep(t)
    \/ ProcessStep
    \/ \E sig \in Signals : SignalToManager(sig)
    \/ \E name \in {ClientLabels[k] : k \in 1..MaxCallbacks} : ClientRegister(name)
    \/ ClientExit
    \/ ClientCrash
    \/ AuxCall
    \/ \E t \in Threads : CallbackReturn(t)
    \/ \E t \in Threads : CallbackRaise(t)

\* The ShutdownManager under an arbitrary client
SpecManager == InitClient /\ [][NextClient]_vars

----------------------------------------------------------------------------
(* firmware/actuators.py: the robot's joints and their records *)

\* actuators.py:190-207: two of the robot's actuators, each on a bus of its own
JointIds == {11, 12}
Buses == {0, 1}
BusOf(id) == IF id = 11 THEN 0 ELSE 1

\* actuators.py:120-123 name: full_name without "dof_" and its last part
Name(id) == IF id = 11 THEN "left_shoulder_pitch" ELSE "left_shoulder_roll"
FullName(id) == IF id = 11 THEN "dof_left_shoulder_pitch_03" ELSE "dof_left_shoulder_roll_03"

\* can.py:184-194: the raw 16-bit fields of a feedback response
Feedback(flags, angle, velocity, torque, temperature) ==
    [ fault_flags |-> flags, angle_raw |-> angle, angular_velocity_raw |-> velocity,
      torque_raw |-> torque, temperature_raw |-> temperature ]

\* the responses an actuator gives in the model
RawSamples ==
    { Feedback(0, 32768, 32768, 32768, 250), Feedback(1, 40000, 30000, 0, 0),
      Feedback(0, 0, 65535, 65535, 1000) }

\* actuators.py:56-66, 68-70, 76-78, 84-86, 108-109 with the Robstride03
\* ranges of actuators.py:160-171: min + raw / 65535 * (max - min), kept
\* exact as the numerator over 65535 (the angle in units of pi);
\* the temperature raw / 10 as tenths of a degree
CanToPhysicalData(id, fb) ==
    [ name |-> Name(id),
      full_name |-> FullName(id),
      fault_flags |-> fb.fault_flags,
      angle |-> (-4) * 65535 + fb.angle_raw * 8,
      velocity |-> (-20) * 65535 + fb.angular_velocity_raw * 40,
      torque |-> (-60) * 65535 + fb.torque_raw * 120,
      temperature |-> fb.temperature_raw ]

\* actuators.py:53-54 dummy_data
DummyData(id) ==
    [ name |-> Name(id), fault_flags |-> 0, angle |-> 0, velocity |-> 0, torque |-> 0,
      temperature |-> 0 ]

\* dict.update
Merge(f, g) == [x \in (DOMAIN f) \cup (DOMAIN g) |-> IF x \in DOMAIN g THEN g[x] ELSE f[x]]

Restrict(f, S) == [x \in (DOMAIN f) \cap S |-> f[x]]

\* can.py:369-383: fb holds the responses get_actuator_feedback collected
\* (can.py:155-182), keyed by actuator id; every actuator of the robot gets
\* an entry: fresh, else last known, else the dummy record
JointData(fb, known) ==
    [id \in JointIds |->
        IF id \in DOMAIN fb THEN CanToPhysicalData(id, fb[id])
        ELSE IF id \in DOMAIN known THEN known[id]
        ELSE DummyData(id)]

\* the joint readings at the startup limit: the raw angles next to +2.0 rad
\* (37982: 1.99977, 37983: 2.00015) and next to -2.0 rad (27553, 27552)
StartupSamples ==
    { Feedback(0, raw, 32768, 32768, 250) : raw \in {37982, 37983, 27553, 27552} }

\* the responses of the startup read: some actuators answer
StartupExchanges == UNION {[R -> StartupSamples] : R \in SUBSET JointIds}

Abs(x) == IF x < 0 THEN -x ELSE x

\* (mutant) the sign of the angle is not taken off
M_TooFar(angle) == angle * 355 > 131070 * 113

\* can.py:324 abs(data["angle"]) > 2.0, on the angle as a numerator over
\* 65535 in units of pi: pi * |n| / 65535 > 2.  355/113 exceeds pi by less
\* than 3e-7, which decides the comparison as the floating-point one for
\* every 16-bit reading.
TooFar(angle) == Abs(angle) * 355 > 131070 * 113

----------------------------------------------------------------------------
(* firmware/main.py with the MotorDriver of firmware/can.py *)

\* control-loop iterations in one run
MaxTicks == 2
\* SIGINT/SIGTERM deliveries in one run of the firmware
MaxFwSignals == 1
\* can.py:292 num_steps, can.py:334 range(30)
RampSteps == 30
\* main.py:52 range(50)
MainRampSteps == 50

mgrFlags == <<cleanup_callbacks, shutdown_in_progress, shutdown_complete>>
procRest == <<handler, atexit_handlers, signals, auxCalls>>
obsRest == <<invoked, atTrigger, flipper, execCalls, armedAtTrigger>>

Goto(pc) == stacks' = [stacks EXCEPT !["main"] = SetTop(@, [Top("main") EXCEPT !.pc = pc])]
NoRaise == UNCHANGED <<lock, failed, exit_code>>

\* A step of the main thread ends with outcome out: "ok" continues at pc, any
\* other outcome is the exception raised.
Outcome(out, pc) == IF out = "ok" THEN Goto(pc) /\ NoRaise ELSE Raise("main", out)

InLoop ==
    /\ Depth("main") >= 2
    /\ stacks["main"][2].fn = "runner"
    /\ stacks["main"][2].pc \in LoopPcs

\* Outcomes of a driver operation that sends frames and reads responses
\* (can.py:155-182, 196-210): nothing happens when the socket map is empty;
\* send on a closed socket raises OSError; otherwise the exchange succeeds,
\* a response carries a critical fault (can.py:100), or send fails.
SendRecvOutcomes ==
    IF ~sockets_in_map THEN {"ok"}
    ELSE IF sockets_closed THEN {"OSError"}
    ELSE {"ok", "CriticalFaultError", "OSError"}

\* Outcomes of an operation that only reads (can.py:226-234): recv errors are
\* absorbed by _receive_can_frame (can.py:83-84), faults are raised.
RecvOutcomes ==
    IF ~sockets_in_map \/ sockets_closed THEN {"ok"} ELSE {"ok", "CriticalFaultError"}

\* Socket I/O is attempted by a driver operation exactly when the map holds sockets.
NoteIO == io_after_close' = (io_after_close \/ (sockets_in_map /\ close_done))

\* Outcomes of get_actuator_feedback (can.py:155-182): max() over an empty
\* actuator table raises ValueError (can.py:158); else as any exchange.
FeedbackOutcomes == IF ~sockets_in_map THEN {"Exception"} ELSE SendRecvOutcomes

\* the frames of a PD command with outcome out went out: there is an open
\* socket and send did not fail
PdGoesOut(out) == sockets_in_map /\ ~sockets_closed /\ out # "OSError"

\* A PD command of the given scale class was handed to set_pd_targets with
\* outcome out.
NotePd(scale, out) ==
    pd_zero_sent' = IF PdGoesOut(out) THEN scale = "zero" ELSE pd_zero_sent

\* The ramp of function fn has sent its final zero command after steps
\* commands on the given targets ("home": main.py:49 joint_bias; "read": the
\* angles read at can.py:284-285).
NoteRamp(fn, steps, targets, out) ==
    rd_obs' = IF out = "ok" /\ PdGoesOut(out)
              THEN [rd_obs EXCEPT !.ramps =
                       Append(@, [fn |-> fn, steps |-> steps, targets |-> targets])]
              ELSE rd_obs

\* ---- main(), main.py:179-249 ----

\* main.py:200-210: the user picks a policy and runner is called, or aborts
MainKinferPath(chosen) ==
    /\ HasTop("main", "main", "kinfer_path")
    /\ IF chosen
       THEN Call("main", "in_runner", Frame("runner", "logger", 0, ""))
       ELSE Goto("close_interface")
    /\ NoRaise
    /\ UNCHANGED <<mgrFlags, procRest, obsRest, appVars>>
    /\ UNCHANGED libVars

\* main.py:220-231: finally: close the launch interface
MainCloseInterface ==
    /\ HasTop("main", "main", "close_interface")
    /\ Goto("sys_exit")
    /\ NoRaise
    /\ UNCHANGED <<mgrFlags, procRest, obsRest, appVars>>
    /\ UNCHANGED libVars

\* main.py:247-249: finally: sys.exit(0)
MainSysExit ==
    /\ HasTop("main", "main", "sys_exit")
    /\ Raise("main", "SystemExit(0)")
    /\ UNCHANGED <<mgrFlags, procRest, obsRest, appVars>>
    /\ UNCHANGED libVars

\* main.py:28-42 signal_handler, installed by main.py:184-185: sets the flag
SignalToMain(sig) ==
    /\ handler = "main"
    /\ sig \in Signals
    /\ signals < MaxFwSignals
    /\ Depth("main") > 0
    /\ signals' = signals + 1
    /\ shutdown_requested' = TRUE
    /\ loop_signal' = (loop_signal \/ InLoop)
    /\ UNCHANGED <<mgrVars, obsVars, stacks, handler, atexit_handlers, exit_code, auxCalls>>
    /\ UNCHANGED <<motor_driver, motors_enabled, last_scaling, sockets_in_map, sockets_closed,
                   imu, shm_closed, logger_running, step_id>>
    /\ UNCHANGED <<pd_zero_sent, zero_before_close, close_done, io_after_close, tick_fault,
                   step_after_fault, tick_after_signal>>
    /\ UNCHANGED libVars

\* hiwonder.py:95-105 _safe_shutdown, installed by hiwonder.py:108-109: closes
\* the shared memory, stops the reader process, and returns
SignalToImu(sig) ==
    /\ handler = "imu"
    /\ sig \in Signals
    /\ signals < MaxFwSignals
    /\ Depth("main") > 0
    /\ signals' = signals + 1
    /\ shm_closed' = TRUE
    /\ loop_signal' = (loop_signal \/ InLoop)
    /\ UNCHANGED <<mgrVars, obsVars, stacks, handler, atexit_handlers, exit_code, auxCalls>>
    /\ UNCHANGED <<shutdown_requested, motor_driver, motors_enabled, last_scaling,
                   sockets_in_map, sockets_closed, imu, logger_running, step_id>>
    /\ UNCHANGED <<pd_zero_sent, zero_before_close, close_done, io_after_close, tick_fault,
                   step_after_fault, tick_after_signal>>
    /\ UNCHANGED libVars

\* a signal while the manager's handler is installed, shutdown.py:52-53
SignalInFirmware(sig) ==
    /\ signals < MaxFwSignals
    /\ DeliverToManager(sig)
    /\ loop_signal' = (loop_signal \/ InLoop)
    /\ UNCHANGED fwVars
    /\ UNCHANGED <<pd_zero_sent, zero_before_close, close_done, io_after_close, tick_fault,
                   step_after_fault, tick_after_signal>>
    /\ UNCHANGED libVars

\* the exit hook registered by hiwonder.py:107
FinalizeRunImuHook ==
    /\ HasTop("main", "Py_Finalize", "next")
    /\ Top("main").i > 0
    /\ atexit_handlers[Top("main").i] = "imu"
    /\ stacks' = [stacks EXCEPT !["main"] = SetTop(@, [Top("main") EXCEPT !.i = @ - 1])]
    /\ shm_closed' = TRUE
    /\ NoRaise
    /\ UNCHANGED <<mgrFlags, procRest, obsRest, fwObs>>
    /\ UNCHANGED <<shutdown_requested, motor_driver, motors_enabled, last_scaling,
                   sockets_in_map, sockets_closed, imu, logger_running, step_id>>
    /\ UNCHANGED libVars

\* ---- runner, main.py:66-176 ----

\* (mutant) the two registrations of MotorDriver.__init__ swapped
M_DriverCleanups == <<"Motor ramp down", "CAN sockets">>

\* can.py:264-265: the cleanups MotorDriver.__init__ registers, in order
DriverCleanups == <<"CAN sockets", "Motor ramp down">>

\* main.py:69, logger.py:16-27: Logger() starts its worker, builds the
\* ShutdownManager singleton (shutdown.py:38-53: exit hook, then the signal
\* handlers) and registers "Logger"
RunnerLogger ==
    /\ HasTop("main", "runner", "logger")
    /\ logger_running' = TRUE
    /\ handler' = "manager"
    /\ atexit_handlers' = Append(atexit_handlers, "manager")
    /\ Call("main", "in_register_logger", Frame("register_cleanup", "acquire", 0, "Logger"))
    /\ NoRaise
    /\ UNCHANGED <<mgrFlags, signals, auxCalls, obsRest, fwObs>>
    /\ UNCHANGED <<shutdown_requested, motor_driver, motors_enabled, last_scaling,
                   sockets_in_map, sockets_closed, imu, shm_closed, step_id>>
    /\ UNCHANGED libVars

\* main.py:74-86: load the policy archive and build the command interface.
\* malformed: get_onnx_sessions raises on the archive (utils.py:15-24: the
\* ValueError of the path test, tarfile's error, the AssertionError of the
\* member list, json's error); any other failure of the block is out alone.
RunnerSetup(out, malformed) ==
    /\ HasTop("main", "runner", "setup")
    /\ out \in {"ok", "Exception"}
    /\ malformed => out = "Exception"
    /\ Outcome(out, "imu")
    /\ archive_bad' = malformed
    /\ UNCHANGED <<mgrFlags, procRest, obsRest, appVars>>
    /\ UNCHANGED <<libRest, startup_obs, rd_obs, log_records>>

\* main.py:88, utils.py:64-74, hiwonder.py:70-90: Hiwonder() is tried first;
\* it installs its own SIGINT/SIGTERM handlers and exit hook (hiwonder.py:89)
\* before start() can fail (hiwonder.py:90), unless mapping the shared memory
\* failed before that (hiwonder.py:78). hooks: the handlers were installed;
\* reader: the reader that was built, or "None" (ValueError, utils.py:74).
RunnerImu(hooks, reader) ==
    /\ HasTop("main", "runner", "imu")
    /\ reader \in {"hiwonder", "bno055", "None"}
    /\ reader = "hiwonder" => hooks
    /\ handler' = IF hooks THEN "imu" ELSE handler
    /\ atexit_handlers' = IF hooks THEN Append(atexit_handlers, "imu") ELSE atexit_handlers
    /\ imu' = reader
    /\ Outcome(IF reader = "None" THEN "Exception" ELSE "ok", "imu_permission")
    /\ UNCHANGED <<mgrFlags, signals, auxCalls, obsRest, fwObs>>
    /\ UNCHANGED <<shutdown_requested, motor_driver, motors_enabled, last_scaling,
                   sockets_in_map, sockets_closed, shm_closed, logger_running, step_id>>
    /\ UNCHANGED libVars

\* A return statement inside the try block: the finally block runs with
\* no exception pending.
ReturnFromTry ==
    stacks' = [stacks EXCEPT !["main"] = SetTop(@, [Top("main") EXCEPT !.pc = "finally", !.arg = ""])]

\* main.py:89-90
RunnerImuPermission(granted) ==
    /\ HasTop("main", "runner", "imu_permission")
    /\ IF granted THEN Goto("md_discover") ELSE ReturnFromTry
    /\ NoRaise
    /\ UNCHANGED <<mgrFlags, procRest, obsRest, appVars>>
    /\ UNCHANGED libVars

\* main.py:94 MotorDriver(): can.py:258 CANInterface() scans the buses
\* (can.py:108-131; found: some actuator answered, so sockets are kept; a
\* ping response can carry a critical fault, send can fail), then
\* can.py:264 registers "CAN sockets"
RunnerDiscover(found, out) ==
    /\ HasTop("main", "runner", "md_discover")
    /\ out \in {"ok", "CriticalFaultError", "OSError"}
    /\ IF out = "ok"
       THEN /\ sockets_in_map' = found
            /\ Call("main", "in_register_cs", Frame("register_cleanup", "acquire", 0, DriverCleanups[1]))
            /\ NoRaise
       ELSE /\ Raise("main", out)
            /\ UNCHANGED sockets_in_map
    /\ UNCHANGED <<mgrFlags, procRest, obsRest, fwObs>>
    /\ UNCHANGED <<shutdown_requested, motor_driver, motors_enabled, last_scaling,
                   sockets_closed, imu, shm_closed, logger_running, step_id>>
    /\ UNCHANGED libVars

\* can.py:265 registers "Motor ramp down"
RunnerRegisterRamp ==
    /\ HasTop("main", "runner", "md_reg_ramp")
    /\ Call("main", "in_register_rd", Frame("register_cleanup", "acquire", 0, DriverCleanups[2]))
    /\ NoRaise
    /\ UNCHANGED <<mgrFlags, procRest, obsRest, appVars>>
    /\ UNCHANGED libVars

\* the largest magnitude among the angles of a joint-data map
MaxAbsAngle(data) ==
    LET mags == {Abs(data[id].angle) : id \in DOMAIN data}
    IN  CHOOSE m \in mags : \A n \in mags : n <= m

\* can.py:267, 305-326 startup_sequence: exit(1) without actuators; the
\* joints are read (fb: the responses; last_known_feedback holds the dummy
\* record of every actuator, can.py:259); exit(1) when a joint is further
\* than 2.0 rad from zero; then main.py:94 binds motor_driver
RunnerStartup(fb, out) ==
    /\ HasTop("main", "runner", "md_startup")
    /\ out \in FeedbackOutcomes
    /\ LET data == JointData(fb, [id \in JointIds |-> DummyData(id)])
           far == \E id \in DOMAIN data : TooFar(data[id].angle)
           res == IF ~sockets_in_map THEN "SystemExit(1)"
                  ELSE IF out # "ok" THEN out
                  ELSE IF far THEN "SystemExit(1)"
                  ELSE "ok"
       IN  /\ Outcome(res, "motor_permission")
           /\ motor_driver' = IF res = "ok" THEN "built" ELSE motor_driver
           /\ startup_obs' = IF ~sockets_in_map
                             THEN [checked |-> TRUE, found |-> FALSE, max_angle |-> 0]
                             ELSE IF out # "ok" THEN startup_obs
                             ELSE [checked |-> TRUE, found |-> TRUE,
                                   max_angle |-> MaxAbsAngle(data)]
    /\ NoteIO
    /\ UNCHANGED <<mgrFlags, procRest, obsRest>>
    /\ UNCHANGED <<shutdown_requested, motors_enabled, last_scaling, sockets_in_map,
                   sockets_closed, imu, shm_closed, logger_running, step_id>>
    /\ UNCHANGED <<pd_zero_sent, zero_before_close, close_done, tick_fault,
                   step_after_fault, loop_signal, tick_after_signal>>
    /\ UNCHANGED <<libRest, archive_bad, rd_obs, log_records>>

\* websocket.py:78-113 process_step: what a permission step can end with:
\* the message it waits for, an "abort" message, or None after the timeout
\* (a message of any other type is answered with an error and skipped)
StepResults(expected) == {expected, "abort", "None"}

\* (mutant) every end of the step counts as a permission
M_Permitted(message, expected) == TRUE

\* websocket.py:179-182, 191-194: the step grants the permission only when
\* it ended with the message it waits for
Permitted(message, expected) == message # "None" /\ message = expected

\* what the history keeps of the end of a permission step
Noted(message, expected) == IF message = expected THEN message ELSE "refused"

\* main.py:96-100, websocket.py:174-182
RunnerMotorPermission(message) ==
    /\ HasTop("main", "runner", "motor_permission")
    /\ IF Permitted(message, "enable_motors") THEN Goto("enable") ELSE ReturnFromTry
    /\ launch_obs' = [launch_obs EXCEPT !.motor = Noted(message, "enable_motors")]
    /\ NoRaise
    /\ UNCHANGED <<mgrFlags, procRest, obsRest, appVars>>
    /\ UNCHANGED notLaunch

\* main.py:101, can.py:329-330: enable_motors sends an enable frame to each
\* actuator and reads a response; then the enabled flag is set
RunnerEnable(out) ==
    /\ HasTop("main", "runner", "enable")
    /\ out \in SendRecvOutcomes
    /\ IF out = "ok"
       THEN /\ stacks' = [stacks EXCEPT !["main"] = SetTop(@, [Top("main") EXCEPT !.pc = "home", !.i = 0])]
            /\ NoRaise
       ELSE Raise("main", out)
    /\ motors_enabled' = (out = "ok")
    /\ NoteIO
    /\ UNCHANGED <<mgrFlags, procRest, obsRest>>
    /\ UNCHANGED <<shutdown_requested, motor_driver, last_scaling, sockets_in_map,
                   sockets_closed, imu, shm_closed, logger_running, step_id>>
    /\ UNCHANGED <<pd_zero_sent, zero_before_close, close_done, tick_fault,
                   step_after_fault, loop_signal, tick_after_signal>>
    /\ UNCHANGED libVars

\* can.py:334-338: one step of the 30-step homing ramp, a PD command with a
\* positive scale (set_pd_targets stores the scale first, can.py:363)
RunnerHomeStep(out) ==
    /\ HasTop("main", "runner", "home")
    /\ Top("main").i < RampSteps
    /\ out \in SendRecvOutcomes
    /\ last_scaling' = "pos"
    /\ IF out = "ok"
       THEN /\ stacks' = [stacks EXCEPT !["main"] = SetTop(@, [Top("main") EXCEPT !.i = @ + 1])]
            /\ NoRaise
       ELSE Raise("main", out)
    /\ NoteIO
    /\ NotePd("pos", out)
    /\ UNCHANGED <<mgrFlags, procRest, obsRest>>
    /\ UNCHANGED <<shutdown_requested, motor_driver, motors_enabled, sockets_in_map,
                   sockets_closed, imu, shm_closed, logger_running, step_id>>
    /\ UNCHANGED <<zero_before_close, close_done, tick_fault,
                   step_after_fault, loop_signal, tick_after_signal>>
    /\ UNCHANGED libVars

\* can.py:339: the ramp is over
RunnerHomeDone ==
    /\ HasTop("main", "runner", "home")
    /\ Top("main").i = RampSteps
    /\ stacks' = [stacks EXCEPT !["main"] = SetTop(@, [Top("main") EXCEPT !.pc = "policy_permission", !.i = 0])]
    /\ NoRaise
    /\ UNCHANGED <<mgrFlags, procRest, obsRest, appVars>>
    /\ UNCHANGED libVars

\* main.py:103-106, websocket.py:184-194
RunnerPolicyPermission(message) ==
    /\ HasTop("main", "runner", "policy_permission")
    /\ IF Permitted(message, "start_policy") THEN Goto("loop_test") ELSE ReturnFromTry
    /\ launch_obs' = [launch_obs EXCEPT !.policy = Noted(message, "start_policy")]
    /\ NoRaise
    /\ UNCHANGED <<mgrFlags, procRest, obsRest, appVars>>
    /\ UNCHANGED notLaunch

\* ---- the control loop, main.py:111-169 ----

\* what every step of the loop leaves alone
TickFrame ==
    /\ UNCHANGED <<mgrFlags, procRest, obsRest>>
    /\ UNCHANGED <<shutdown_requested, motor_driver, motors_enabled, sockets_in_map,
                   sockets_closed, imu, shm_closed, logger_running>>
    /\ UNCHANGED <<zero_before_close, close_done, loop_signal>>

\* a step of the loop that runs while a critical fault has been raised in a tick
NoteStep == step_after_fault' = (step_after_fault \/ tick_fault)

\* main.py:111: while not shutdown_requested; a tick starts
RunnerLoopTest ==
    /\ HasTop("main", "runner", "loop_test")
    /\ IF shutdown_requested
       THEN /\ ReturnFromTry
            /\ UNCHANGED <<step_after_fault, tick_after_signal>>
       ELSE /\ step_id < MaxTicks
            /\ Goto("t_joints")
            /\ NoteStep
            /\ tick_after_signal' = (tick_after_signal \/ loop_signal)
    /\ NoRaise
    /\ TickFrame
    /\ UNCHANGED <<last_scaling, step_id, pd_zero_sent, io_after_close, tick_fault>>
    /\ UNCHANGED libVars

\* main.py:113: the joint data is read from the driver (can.py:385-400)
TickJoints(out) ==
    /\ HasTop("main", "runner", "t_joints")
    /\ out \in FeedbackOutcomes
    /\ Outcome(out, "t_imu")
    /\ NoteIO
    /\ NoteStep
    /\ UNCHANGED libVars
    /\ tick_fault' = (tick_fault \/ out = "CriticalFaultError")
    /\ TickFrame
    /\ UNCHANGED <<last_scaling, step_id, pd_zero_sent, tick_after_signal>>

\* (mutant) the policy step is taken before the command is read
M_AfterStep(pc) ==
    CASE pc = "t_imu" -> "t_policy"
      [] pc = "t_policy" -> "t_cmd"
      [] OTHER -> "t_action"

\* main.py:115-131: what follows the IMU read, the command read and the
\* policy step
AfterStep(pc) ==
    CASE pc = "t_imu" -> "t_cmd"
      [] pc = "t_cmd" -> "t_policy"
      [] OTHER -> "t_action"

\* main.py:115-131: IMU read (hiwonder.py:181-204 returns defaults on any
\* error), command read, policy step; none touches the driver
TickCompute ==
    /\ Depth("main") > 0
    /\ Top("main").fn = "runner"
    /\ Top("main").pc \in {"t_imu", "t_cmd", "t_policy"}
    /\ Goto(AfterStep(Top("main").pc))
    /\ NoRaise
    /\ NoteStep
    /\ UNCHANGED libVars
    /\ TickFrame
    /\ UNCHANGED <<last_scaling, step_id, pd_zero_sent, io_after_close, tick_fault,
                   tick_after_signal>>

\* main.py:133, can.py:402-404, 362-364: the action is sent as PD targets at
\* max_scaling; the scale is stored before the frames go out
TickAction(out) ==
    /\ HasTop("main", "runner", "t_action")
    /\ out \in SendRecvOutcomes
    /\ last_scaling' = "pos"
    /\ Outcome(out, "t_flush")
    /\ NoteIO
    /\ NotePd("pos", out)
    /\ NoteStep
    /\ UNCHANGED libVars
    /\ tick_fault' = (tick_fault \/ out = "CriticalFaultError")
    /\ TickFrame
    /\ UNCHANGED <<step_id, tick_after_signal>>

\* main.py:135, can.py:366-367, 226-234: one late frame is drained per bus
TickFlush(out) ==
    /\ HasTop("main", "runner", "t_flush")
    /\ out \in RecvOutcomes
    /\ Outcome(out, "t_log")
    /\ NoteIO
    /\ NoteStep
    /\ UNCHANGED libVars
    /\ tick_fault' = (tick_fault \/ out = "CriticalFaultError")
    /\ TickFrame
    /\ UNCHANGED <<last_scaling, step_id, pd_zero_sent, tick_after_signal>>

\* main.py:137-168: the record, which carries step_id, is queued
\* (logger.py:54-55), then step_id += 1
TickLog ==
    /\ HasTop("main", "runner", "t_log")
    /\ step_id' = step_id + 1
    /\ Goto("t_sleep")
    /\ NoRaise
    /\ NoteStep
    /\ log_records' = Append(log_records, step_id)
    /\ TickFrame
    /\ UNCHANGED <<last_scaling, pd_zero_sent, io_after_close, tick_fault, tick_after_signal>>
    /\ UNCHANGED <<libRest, startup_obs, archive_bad, rd_obs>>

\* main.py:169: the rest of the 20 ms period is slept
TickSleep ==
    /\ HasTop("main", "runner", "t_sleep")
    /\ Goto("loop_test")
    /\ NoRaise
    /\ NoteStep
    /\ UNCHANGED libVars
    /\ TickFrame
    /\ UNCHANGED <<last_scaling, step_id, pd_zero_sent, io_after_close, tick_fault,
                   tick_after_signal>>

\* ---- leaving runner, main.py:171-176 ----

\* finally: if motor_driver is not None: ramp_down_motors(motor_driver)
RunnerFinally ==
    /\ HasTop("main", "runner", "finally")
    /\ IF motor_driver = "built"
       THEN Call("main", "in_ramp_down", Frame("ramp_down_motors", "step", 0, ""))
       ELSE Goto("after_finally")
    /\ NoRaise
    /\ UNCHANGED <<mgrFlags, procRest, obsRest, appVars>>
    /\ UNCHANGED libVars

\* the finally block is over: the pending exception, if any, goes on
RunnerAfterFinally ==
    /\ HasTop("main", "runner", "after_finally")
    /\ IF Top("main").arg = ""
       THEN Return("main") /\ NoRaise
       ELSE Raise("main", Top("main").arg)
    /\ UNCHANGED <<mgrFlags, procRest, obsRest, appVars>>
    /\ UNCHANGED libVars

\* what the steps of a ramp leave alone
RampFrame ==
    /\ UNCHANGED <<mgrFlags, procRest, obsRest>>
    /\ UNCHANGED <<shutdown_requested, motor_driver, sockets_in_map, sockets_closed, imu,
                   shm_closed, logger_running, step_id>>
    /\ UNCHANGED <<zero_before_close, close_done, tick_fault, step_after_fault, loop_signal,
                   tick_after_signal>>

\* main.py:52-57: one of the 50 decreasing scales (none exceeds max_scaling)
\* is sent through motor_driver.can.set_pd_targets, which does not store it
MainRampStep(out) ==
    /\ HasTop("main", "ramp_down_motors", "step")
    /\ Top("main").i < MainRampSteps
    /\ out \in SendRecvOutcomes
    /\ IF out = "ok"
       THEN /\ stacks' = [stacks EXCEPT !["main"] = SetTop(@, [Top("main") EXCEPT !.i = @ + 1])]
            /\ NoRaise
       ELSE Raise("main", out)
    /\ NoteIO
    /\ NotePd("pos", out)
    /\ RampFrame
    /\ UNCHANGED <<motors_enabled, last_scaling>>
    /\ UNCHANGED libVars

\* main.py:59-61: the final zero torque command
MainRampZero(out) ==
    /\ HasTop("main", "ramp_down_motors", "step")
    /\ Top("main").i = MainRampSteps
    /\ out \in SendRecvOutcomes
    /\ IF out = "ok"
       THEN /\ stacks' = [stacks EXCEPT !["main"] =
                            SetTop(@, [Top("main") EXCEPT !.pc = "done", !.i = 0])]
            /\ NoRaise
       ELSE Raise("main", out)
    /\ NoteIO
    /\ NotePd("zero", out)
    /\ NoteRamp("ramp_down_motors", Top("main").i, "home", out)
    /\ RampFrame
    /\ UNCHANGED <<motors_enabled, last_scaling>>
    /\ UNCHANGED <<libRest, startup_obs, archive_bad, log_records>>

\* main.py:61-63: ramp_down_motors returns, also after except Exception
MainRampDone ==
    /\ HasTop("main", "ramp_down_motors", "done")
    /\ Return("main")
    /\ NoRaise
    /\ UNCHANGED <<mgrFlags, procRest, obsRest, appVars>>
    /\ UNCHANGED libVars

\* ---- the cleanups, can.py:269-303, can.py:236-244, logger.py:46-52 ----

\* can.py:271-272: if not self._motors_enabled: return
SafeRampTest ==
    /\ HasTop("main", "_safe_ramp_down", "test")
    /\ IF motors_enabled THEN Goto("flush") ELSE Return("main")
    /\ NoRaise
    /\ UNCHANGED <<mgrFlags, procRest, obsRest, appVars>>
    /\ UNCHANGED libVars

\* can.py:274: self.flush_can_busses(), inside the try
SafeRampFlush(out) ==
    /\ HasTop("main", "_safe_ramp_down", "flush")
    /\ out \in RecvOutcomes
    /\ Outcome(out, "rd_read")
    /\ NoteIO
    /\ RampFrame
    /\ UNCHANGED <<motors_enabled, last_scaling, pd_zero_sent>>
    /\ UNCHANGED libVars

\* can.py:284-293: _ramp_down_motors reads the joints (every actuator gets an
\* entry, can.py:372-382, so the map is never empty) and takes
\* start_scale = self._last_scaling
SafeRampRead(out) ==
    /\ HasTop("main", "_safe_ramp_down", "rd_read")
    /\ out \in FeedbackOutcomes
    /\ IF out = "ok"
       THEN /\ stacks' = [stacks EXCEPT !["main"] =
                            SetTop(@, [Top("main") EXCEPT !.pc = "rd_step", !.arg = last_scaling])]
            /\ NoRaise
       ELSE Raise("main", out)
    /\ NoteIO
    /\ RampFrame
    /\ UNCHANGED <<motors_enabled, last_scaling, pd_zero_sent>>
    /\ UNCHANGED libVars

\* can.py:294-298: one of the 30 steps, scale = start_scale * exp(...):
\* positive exactly when start_scale is
SafeRampStep(out) ==
    /\ HasTop("main", "_safe_ramp_down", "rd_step")
    /\ Top("main").call < RampSteps
    /\ out \in SendRecvOutcomes
    /\ last_scaling' = Top("main").arg
    /\ IF out = "ok"
       THEN /\ stacks' = [stacks EXCEPT !["main"] = SetTop(@, [Top("main") EXCEPT !.call = @ + 1])]
            /\ NoRaise
       ELSE Raise("main", out)
    /\ NoteIO
    /\ NotePd(Top("main").arg, out)
    /\ rd_obs' = [rd_obs EXCEPT !.raised_scale =
                      @ \/ (Top("main").arg = "pos" /\ pd_zero_sent /\ PdGoesOut(out))]
    /\ RampFrame
    /\ UNCHANGED motors_enabled
    /\ UNCHANGED <<libRest, startup_obs, archive_bad, log_records>>

\* can.py:300-302: the final zero torque command, then _motors_enabled = False
SafeRampZero(out) ==
    /\ HasTop("main", "_safe_ramp_down", "rd_step")
    /\ Top("main").call = RampSteps
    /\ out \in SendRecvOutcomes
    /\ last_scaling' = "zero"
    /\ IF out = "ok"
       THEN /\ stacks' = [stacks EXCEPT !["main"] =
                            SetTop(@, [Top("main") EXCEPT !.pc = "disable", !.arg = "", !.call = 0])]
            /\ NoRaise
       ELSE Raise("main", out)
    /\ motors_enabled' = IF out = "ok" THEN FALSE ELSE motors_enabled
    /\ NoteIO
    /\ NotePd("zero", out)
    /\ NoteRamp("_ramp_down_motors", Top("main").call, "read", out)
    /\ RampFrame
    /\ UNCHANGED <<libRest, startup_obs, archive_bad, log_records>>

\* actuators.py:9-15: the members of Mux
MuxMembers == {"PING", "CONTROL", "FEEDBACK", "MOTOR_ENABLE", "FAULT_RESPONSE"}

\* can.py:279, 148-153: disable_motors builds, for each actuator of each
\* socket, a frame with Mux.MOTOR_DISABLE and sends it; the attribute lookup
\* of a name that is no member of Mux raises before the first frame is sent.
\* disable_due: there are discovered actuators; disable_frames: the frames
\* of mux MOTOR_DISABLE sent to each of them.
SafeRampDisable ==
    /\ HasTop("main", "_safe_ramp_down", "disable")
    /\ IF sockets_in_map /\ "MOTOR_DISABLE" \notin MuxMembers
       THEN Raise("main", "Exception")
       ELSE Return("main") /\ NoRaise
    /\ rd_obs' = [rd_obs EXCEPT !.disable_reached = TRUE, !.ramps_at_disable = rd_obs.ramps,
                                !.disable_due = sockets_in_map,
                                !.disable_frames =
                                    IF sockets_in_map /\ "MOTOR_DISABLE" \in MuxMembers
                                    THEN 1 ELSE 0]
    /\ UNCHANGED <<mgrFlags, procRest, obsRest, appVars>>
    /\ UNCHANGED <<libRest, startup_obs, archive_bad, log_records>>

\* can.py:238-242: every socket is closed (a failing close is caught)
CloseSockets ==
    /\ HasTop("main", "close", "close_socks")
    /\ sockets_closed' = (sockets_closed \/ sockets_in_map)
    /\ zero_before_close' = IF sockets_in_map /\ ~sockets_closed THEN pd_zero_sent
                            ELSE zero_before_close
    /\ Goto("clear")
    /\ NoRaise
    /\ UNCHANGED <<mgrFlags, procRest, obsRest>>
    /\ UNCHANGED <<shutdown_requested, motor_driver, motors_enabled, last_scaling,
                   sockets_in_map, imu, shm_closed, logger_running, step_id>>
    /\ UNCHANGED <<pd_zero_sent, close_done, io_after_close, tick_fault, step_after_fault,
                   loop_signal, tick_after_signal>>
    /\ UNCHANGED libVars

\* can.py:243-244: self.sockets.clear(); self.actuators.clear(); close returns
CloseClear ==
    /\ HasTop("main", "close", "clear")
    /\ sockets_in_map' = FALSE
    /\ close_done' = TRUE
    /\ Return("main")
    /\ NoRaise
    /\ UNCHANGED <<mgrFlags, procRest, obsRest>>
    /\ UNCHANGED <<shutdown_requested, motor_driver, motors_enabled, last_scaling,
                   sockets_closed, imu, shm_closed, logger_running, step_id>>
    /\ UNCHANGED <<pd_zero_sent, zero_before_close, io_after_close, tick_fault,
                   step_after_fault, loop_signal, tick_after_signal>>
    /\ UNCHANGED libVars

\* logger.py:48-50: if not self.running: return; self.running = False
LoggerShutdownTest ==
    /\ HasTop("main", "Logger._shutdown", "test")
    /\ IF logger_running THEN Goto("join") ELSE Return("main")
    /\ logger_running' = FALSE
    /\ NoRaise
    /\ UNCHANGED <<mgrFlags, procRest, obsRest, fwObs>>
    /\ UNCHANGED <<shutdown_requested, motor_driver, motors_enabled, last_scaling,
                   sockets_in_map, sockets_closed, imu, shm_closed, step_id>>
    /\ UNCHANGED libVars

\* logger.py:51-52: queue.join(), thread.join(timeout=2.0)
LoggerShutdownJoin ==
    /\ HasTop("main", "Logger._shutdown", "join")
    /\ Return("main")
    /\ NoRaise
    /\ UNCHANGED <<mgrFlags, procRest, obsRest, appVars>>
    /\ UNCHANGED libVars

\* ---- the firmware as a whole ----

\* python -m firmware.main: nothing is built, main() has installed its
\* signal_handler (main.py:184-185), no exit hook is registered
InitFirmware ==
    /\ cleanup_callbacks = <<>>
    /\ shutdown_in_progress = FALSE
    /\ shutdown_complete = FALSE
    /\ lock = NoLock
    /\ handler = "main"
    /\ atexit_handlers = <<>>
    /\ InitObs
    /\ InitFirmwareIdle
    /\ InitLibIdle
    /\ stacks = [t \in Threads |-> IF t = "main" THEN <<Frame("main", "kinfer_path", 0, "")>> ELSE <<>>]
    /\ signals = 0
    /\ exit_code = -1
    /\ auxCalls = 0

RunnerStep ==
    \/ RunnerLogger
    \/ \E out \in {"ok", "Exception"}, malformed \in BOOLEAN : RunnerSetup(out, malformed)
    \/ \E hooks \in BOOLEAN, reader \in {"hiwonder", "bno055", "None"} : RunnerImu(hooks, reader)
    \/ \E granted \in BOOLEAN : RunnerImuPermission(granted)
    \/ \E found \in BOOLEAN, out \in {"ok", "CriticalFaultError", "OSError"} : RunnerDiscover(found, out)
    \/ RunnerRegisterRamp
    \/ \E fb \in StartupExchanges, out \in {"ok", "CriticalFaultError", "OSError", "Exception"} :
           RunnerStartup(fb, out)
    \/ \E message \in StepResults("enable_motors") : RunnerMotorPermission(message)
    \/ \E out \in {"ok", "CriticalFaultError", "OSError"} : RunnerEnable(out)
    \/ \E out \in {"ok", "CriticalFaultError", "OSError"} : RunnerHomeStep(out)
    \/ RunnerHomeDone
    \/ \E message \in StepResults("start_policy") : RunnerPolicyPermission(message)
    \/ RunnerFinally
    \/ RunnerAfterFinally

TickStep ==
    \/ RunnerLoopTest
    \/ \E out \in {"ok", "CriticalFaultError", "OSError", "Exception"} : TickJoints(out)
    \/ TickCompute
    \/ \E out \in {"ok", "CriticalFaultError", "OSError"} : TickAction(out)
    \/ \E out \in {"ok", "CriticalFaultError"} : TickFlush(out)
    \/ TickLog
    \/ TickSleep

CleanupStep ==
    \/ \E out \in {"ok", "CriticalFaultError", "OSError"} : MainRampStep(out)
    \/ \E out \in {"ok", "CriticalFaultError", "OSError"} : MainRampZero(out)
    \/ MainRampDone
    \/ SafeRampTest
    \/ \E out \in {"ok", "CriticalFaultError"} : SafeRampFlush(out)
    \/ \E out \in {"ok", "CriticalFaultError", "OSError", "Exception"} : SafeRampRead(out)
    \/ \E out \in {"ok", "CriticalFaultError", "OSError"} : SafeRampStep(out)
    \/ \E out \in {"ok", "CriticalFaultError", "OSError"} : SafeRampZero(out)
    \/ SafeRampDisable
    \/ CloseSockets
    \/ CloseClear
    \/ LoggerShutdownTest
    \/ LoggerShutdownJoin

Next ==
    \/ \E chosen \in BOOLEAN : MainKinferPath(chosen)
    \/ MainCloseInterface
    \/ MainSysExit
    \/ RunnerStep
    \/ TickStep
    \/ CleanupStep
    \/ ManagerStep("main")
    \/ ProcessStep
    \/ FinalizeRunImuHook
    \/ \E sig \in Signals : SignalToMain(sig)
    \/ \E sig \in Signals : SignalToImu(sig)
    \/ \E sig \in Signals : SignalInFirmware(sig)

\* firmware.main with the MotorDriver of firmware/can.py
Spec == InitFirmware /\ [][Next]_vars

----------------------------------------------------------------------------
(* firmware/can.py: CANInterface._receive_can_frame and the fault classifier *)

\* socket reads in one receive call
MaxFrames == 3

\* actuators.py:11, 13, 15
Mux_PING == 0
Mux_FEEDBACK == 2
Mux_FAULT_RESPONSE == 21
\* can.py:25 HOST_ID = 0xFD
HOST_ID == 253

FaultCode(code, critical, description) ==
    [code |-> code, critical |-> critical, description |-> description]

\* can.py:31-38
MUX_0x15_FAULT_CODES ==
    << FaultCode(1, TRUE, "Motor Over-temperature (>145C)"),
       FaultCode(2, TRUE, "Driver Fault (DRV status)"),
       FaultCode(4, FALSE, "Undervoltage (VBUS < 12V)"),
       FaultCode(8, FALSE, "Overvoltage (VBUS > 60V)"),
       FaultCode(128, FALSE, "Encoder Uncalibrated"),
       FaultCode(16384, TRUE, "Stall/I2t Overload") >>

\* can.py:39-41
MUX_0x15_WARNING_CODES ==
    << FaultCode(1, FALSE, "Motor overtemperature warning (default 135C)") >>

\* can.py:42-49
CAN_ID_FAULT_CODES ==
    << FaultCode(32, FALSE, "Uncalibrated"),
       FaultCode(16, FALSE, "Gridlock overload fault"),
       FaultCode(8, FALSE, "Magnetic coding fault"),
       FaultCode(4, TRUE, "Overtemperature"),
       FaultCode(2, TRUE, "Overcurrent"),
       FaultCode(1, FALSE, "Undervoltage") >>

\* A frame as the socket delivers it: the 29 identifier bits of the
\* identifier word (the flag bits 29-31 above them are cut off by every mask
\* of _parse_can_frame) and the payload as its two little-endian 32-bit
\* words (can.py:104).
WireFrame(can_id, w0, w1) == [can_id |-> can_id, payload |-> <<w0, w1>>]

\* the identifier word an actuator puts on the bus, field by field
ResponseId(actuator, fault_flags, mux) ==
    mux * 16777216 + fault_flags * 65536 + actuator * 256 + HOST_ID

\* can.py:60-76 _parse_can_frame: the fields are cut out of the identifier
ParseCanFrame(frame) ==
    [ host_id |-> frame.can_id % 256,
      actuator_can_id |-> (frame.can_id \div 256) % 256,
      fault_flags |-> (frame.can_id \div 65536) % 64,
      mode_status |-> (frame.can_id \div 4194304) % 4,
      mux |-> (frame.can_id \div 16777216) % 32,
      payload |-> frame.payload ]

\* (mutant) the code is tested as a bit of the value
M_Matches(fault_flags, code) == (fault_flags \div code) % 2 = 1

\* can.py:97: a table entry applies when the value equals its code
Matches(fault_flags, code) == fault_flags = code

NoFault == [kind |-> "ok"]

CriticalFaultError(actuator, description) ==
    [kind |-> "CriticalFaultError", actuator |-> actuator, description |-> description]

\* (mutant) a matching critical entry is only reported, like a warning
M_CheckForFaults(faults, fault_flags, actuator_can_id) == NoFault

\* can.py:95-101 _check_for_faults: the table is walked in order; an entry
\* whose code equals the flags and is critical raises, naming the actuator
\* and the entry's description; any other match only prints a warning
CheckForFaults(faults, fault_flags, actuator_can_id) ==
    LET hits == {k \in 1..Len(faults) : Matches(fault_flags, faults[k].code) /\ faults[k].critical}
    IN  IF hits = {} THEN NoFault
        ELSE LET first == CHOOSE k \in hits : \A j \in hits : k <= j
             IN  CriticalFaultError(actuator_can_id, faults[first].description)

\* can.py:103-106 _process_fault_response: the fault word, then the warning word
ProcessFaultResponse(payload, actuator_can_id) ==
    LET fault == CheckForFaults(MUX_0x15_FAULT_CODES, payload[1], actuator_can_id)
    IN  IF fault.kind # "ok" THEN fault
        ELSE CheckForFaults(MUX_0x15_WARNING_CODES, payload[2], actuator_can_id)

\* (mutant) an extended-fault frame is handed to the caller as the response
M_Skipped(parsed, mux) == parsed.mux # mux /\ parsed.mux # 21

\* can.py:88: the frame is not the awaited one
Skipped(parsed, mux) == parsed.mux # mux

\* the frames the bus can deliver in the model
BusFrames ==
    { WireFrame(ResponseId(a, fl, m), 0, 0) :
        a \in {11, 12}, fl \in {0, 1, 4, 6}, m \in {Mux_PING, Mux_FEEDBACK} }
    \cup
    { WireFrame(ResponseId(a, fl, Mux_FAULT_RESPONSE), w[1], w[2]) :
        a \in {11, 12}, fl \in {1, 6},
        w \in {<<4, 0>>, <<16384, 0>>, <<0, 1>>, <<3, 0>>} }

sysVars == <<mgrVars, procVars, obsVars, appVars, drvVars, canVars, extVars>>

\* The Python frames the interpreter still allows when _receive_can_frame is
\* called (sys.getrecursionlimit() less the depth of the caller), the call's
\* own frame included. CPython's default limit is 1000; the model scales it.
RecursionLimit == 6

\* the recursion level that performs the next socket read: the call itself
\* is level 1 and every skipped frame adds one (can.py:91)
Level == Len(rx_frames) + 1

\* can.py:78-93, one level of _receive_can_frame: the socket delivers frame;
\* it is parsed, its in-band flags are classified, and it is returned, or
\* skipped (after the extended classifier, for mux 0x15) and the function
\* calls itself to read again.  Every call of a Python function needs one
\* more frame: _parse_can_frame (inside the try, so a RecursionError there is
\* caught at can.py:83 and None is returned), _check_for_faults and the
\* recursive call (one frame, which the successful parse has shown to be
\* available), _process_fault_response and its _check_for_faults (two frames,
\* called outside the try: the RecursionError leaves the call).
ReceiveFrame(frame) ==
    /\ rx_pc = "recv"
    /\ rx_frames' = Append(rx_frames, frame)
    /\ LET parsed == ParseCanFrame(frame)
           inband == CheckForFaults(CAN_ID_FAULT_CODES, parsed.fault_flags, parsed.actuator_can_id)
           ext == IF parsed.mux = Mux_FAULT_RESPONSE
                  THEN ProcessFaultResponse(parsed.payload, parsed.actuator_can_id)
                  ELSE NoFault
       IN  IF Level + 1 > RecursionLimit
           THEN /\ rx_result' = [kind |-> "None"]
                /\ rx_pc' = "done"
                /\ UNCHANGED rx_classified
           ELSE IF inband.kind # "ok"
           THEN /\ rx_result' = inband
                /\ rx_pc' = "done"
                /\ UNCHANGED rx_classified
           ELSE IF Skipped(parsed, rx_expected)
           THEN /\ rx_classified' = IF parsed.mux = Mux_FAULT_RESPONSE
                                    THEN rx_classified + 1 ELSE rx_classified
                /\ IF parsed.mux = Mux_FAULT_RESPONSE /\ Level + 2 > RecursionLimit
                   THEN rx_result' = [kind |-> "RecursionError"] /\ rx_pc' = "done"
                   ELSE IF ext.kind # "ok"
                   THEN rx_result' = ext /\ rx_pc' = "done"
                   ELSE UNCHANGED <<rx_result, rx_pc>>
           ELSE /\ rx_result' = [kind |-> "frame", frame |-> parsed]
                /\ rx_pc' = "done"
                /\ UNCHANGED rx_classified
    /\ UNCHANGED rx_expected
    /\ UNCHANGED <<sysVars, jdVars>>

\* can.py:80-84: recv times out or the frame is malformed: None is returned
\* through every level
ReceiveTimeout ==
    /\ rx_pc = "recv"
    /\ rx_result' = [kind |-> "None"]
    /\ rx_pc' = "done"
    /\ UNCHANGED <<rx_expected, rx_frames, rx_classified>>
    /\ UNCHANGED <<sysVars, jdVars>>

\* nothing of the process is running
InitSysIdle ==
    /\ InitManager
    /\ InitDrvIdle
    /\ InitObs
    /\ InitFirmwareIdle
    /\ stacks = [t \in Threads |-> <<>>]
    /\ signals = 0
    /\ exit_code = -1
    /\ auxCalls = 0

\* _receive_can_frame(sock, mux) has been called; the callers pass
\* Mux.PING (can.py:136) or Mux.FEEDBACK (can.py:146, 172, 209, 232)
InitRecv ==
    /\ InitSysIdle
    /\ InitCanIdle
    /\ InitExtIdle
    /\ rx_pc = "recv"
    /\ rx_expected \in {Mux_PING, Mux_FEEDBACK}
    /\ rx_frames = <<>>
    /\ rx_result = [kind |-> "pending"]
    /\ rx_classified = 0
    /\ driver_module = "can"
    /\ last_known_feedback = <<>>
    /\ jd_answer = [returned |-> FALSE, map |-> <<>>]
    /\ jd_seen = {}
    /\ jd_good = <<>>
    /\ jd_calls = 0

NextRecv ==
    \/ \E frame \in BusFrames : Len(rx_frames) < MaxFrames /\ ReceiveFrame(frame)
    \/ ReceiveTimeout

\* one call of CANInterface._receive_can_frame on an arbitrary stream
SpecRecv == InitRecv /\ [][NextRecv]_vars

\* the frames of a bus that keeps delivering: ping and feedback responses,
\* and extended-fault frames reporting undervoltage (a warning, can.py:34)
StormFrames ==
    { WireFrame(ResponseId(a, 0, m), 0, 0) : a \in {11, 12}, m \in {Mux_PING, Mux_FEEDBACK} }
    \cup
    { WireFrame(ResponseId(a, 0, Mux_FAULT_RESPONSE), 4, 0) : a \in {11, 12} }

NextStorm ==
    \/ \E frame \in StormFrames : ReceiveFrame(frame)
    \/ ReceiveTimeout

\* one call of CANInterface._receive_can_frame on a bus that delivers a frame
\* to every read for as long as the call reads
SpecStorm == InitRecv /\ [][NextStorm]_vars

----------------------------------------------------------------------------
(* MotorDriver.get_joint_angles_and_velocities: firmware/can.py and the
   worker-pool driver of firmware/driver.py *)

\* calls of get_joint_angles_and_velocities in one run
MaxCalls == 3

Returned(map) == [returned |-> TRUE, map |-> map]
Raised == [returned |-> FALSE, map |-> <<>>]

\* what a call leaves in the history variables for the actuators read
NoteRead(fresh, answer) ==
    /\ jd_seen' = jd_seen \cup DOMAIN fresh
    /\ jd_good' = Merge(jd_good, fresh)
    /\ jd_answer' = answer
    /\ jd_calls' = jd_calls + 1

\* can.py:369-383 as a step of the driver: the answer is returned and the
\* fresh records are stored
GetJointDataCan(fb) ==
    /\ driver_module = "can"
    /\ jd_calls < MaxCalls
    /\ LET fresh == [id \in DOMAIN fb |-> CanToPhysicalData(id, fb[id])]
           answer == JointData(fb, last_known_feedback)
       IN  /\ last_known_feedback' = Merge(last_known_feedback, fresh)
           /\ NoteRead(fresh, Returned(answer))
    /\ UNCHANGED driver_module
    /\ UNCHANGED <<sysVars, rxVars>>

\* can.py:370 with can.py:100: a response carries a critical fault;
\* get_actuator_feedback raises and nothing is returned or stored
GetJointDataCanRaises ==
    /\ driver_module = "can"
    /\ jd_calls < MaxCalls
    /\ jd_answer' = Raised
    /\ jd_calls' = jd_calls + 1
    /\ UNCHANGED <<driver_module, last_known_feedback, jd_seen, jd_good>>
    /\ UNCHANGED <<sysVars, rxVars>>

\* The per-bus get_actuator_feedback the worker pool calls (its class is not
\* part of firmware/driver.py): for the actuators of the bus, the fresh
\* record, else the bus's last-known one.
BusFeedback(bus, fresh) ==
    LET ids == {id \in JointIds : BusOf(id) = bus}
    IN  Restrict(Merge(last_known_feedback, fresh), ids)

\* driver.py:56-80 async_can: the results of the buses are merged in bus
\* order; a bus whose work item raised or did not finish within the timeout
\* contributes nothing
AsyncCan(results, failed_buses) ==
    LET ok == Buses \ failed_buses
    IN  [id \in UNION {DOMAIN results[b] : b \in ok} |-> results[BusOf(id)][id]]

\* driver.py:179-180: the merged result of async_can is returned as it is
GetJointDataDriver(fb, failed_buses) ==
    /\ driver_module = "driver"
    /\ jd_calls < MaxCalls
    /\ LET done == {id \in DOMAIN fb : BusOf(id) \notin failed_buses}
           fresh == [id \in done |-> CanToPhysicalData(id, fb[id])]
           results == [b \in Buses |-> BusFeedback(b, fresh)]
       IN  /\ last_known_feedback' = Merge(last_known_feedback, fresh)
           /\ NoteRead(fresh, Returned(AsyncCan(results, failed_buses)))
    /\ UNCHANGED driver_module
    /\ UNCHANGED <<sysVars, rxVars>>

\* the responses of one exchange: some actuators answer, each with a sample
Exchanges == UNION {[R -> RawSamples] : R \in SUBSET JointIds}

\* State after MotorDriver.__init__: can.py:259 fills last_known_feedback
\* with the dummy record of every actuator; the worker-pool driver keeps none
InitJoint ==
    /\ InitSysIdle
    /\ InitCanIdle
    /\ InitExtIdle
    /\ rx_pc = "idle"
    /\ rx_expected = 0
    /\ rx_frames = <<>>
    /\ rx_result = [kind |-> "pending"]
    /\ rx_classified = 0
    /\ driver_module \in {"can", "driver"}
    /\ last_known_feedback =
           IF driver_module = "can" THEN [id \in JointIds |-> DummyData(id)] ELSE <<>>
    /\ jd_answer = Raised
    /\ jd_seen = {}
    /\ jd_good = <<>>
    /\ jd_calls = 0

NextJoint ==
    \/ \E fb \in Exchanges : GetJointDataCan(fb)
    \/ GetJointDataCanRaises
    \/ \E fb \in Exchanges, failed_buses \in SUBSET Buses : GetJointDataDriver(fb, failed_buses)

\* the joint-data reads of either MotorDriver
SpecJoint == InitJoint /\ [][NextJoint]_vars

----------------------------------------------------------------------------
(* firmware/can.py run as a program: main(), can.py:407-415 *)

\* responses collected in the scan of one bus (the scan itself pings the 40
\* identifiers of ACTUATOR_RANGE, can.py:27)
MaxPings == 3
\* iterations of sine_wave (can.py:344, while True)
MaxSineTicks == 2

\* actuators.py:12, 14
Mux_CONTROL == 1
Mux_MOTOR_ENABLE == 3

\* the identifiers that answer on a bus: the two joints of the model, and on
\* bus 0 an actuator the robot's table does not hold
PingIds(bus) == IF bus = 0 THEN {11, 14} ELSE {12}

\* can.py:409 main() passes 0.1; can.py:250 the default is 1.0 (millionths)
MaxScalings == {100000, 1000000}

SeqsUpTo(S, n) == UNION {[1..k -> S] : k \in 0..n}
Range(seq) == {seq[k] : k \in 1..Len(seq)}
Min(S) == CHOOSE x \in S : \A y \in S : x <= y
Max(S) == CHOOSE x \in S : \A y \in S : y <= x

RECURSIVE Concat(_)
\* the concatenation of a sequence of sequences
Concat(ss) == IF ss = <<>> THEN <<>> ELSE Head(ss) \o Concat(Tail(ss))

RECURSIVE Sorted(_)
\* sorted(S) of a set of integers
Sorted(S) == IF S = {} THEN <<>> ELSE <<Min(S)>> \o Sorted(S \ {Min(S)})

\* (mutant) the responses are stored as they came
M_StoredList(responses) == responses

\* can.py:126 sorted(list(set(actuators)))
StoredList(responses) == Sorted(Range(responses))

\* (mutant) a bus whose bind or test message failed is scanned all the same
M_FindActuators(up, pings) ==
    [bus \in {b \in DOMAIN pings : pings[b] # <<>>} |-> StoredList(pings[bus])]

\* can.py:108-131: a bus is kept when its socket could be bound, its test
\* message could be sent and its scan collected a response; sockets and
\* actuators get the same keys, in ascending order of bus
FindActuators(up, pings) ==
    [bus \in {b \in up : pings[b] # <<>>} |-> StoredList(pings[bus])]

\* the buses in the iteration order of the sockets dict
BusOrder(acts) == Sorted(DOMAIN acts)

\* the discovered actuators, each a pair of bus and identifier
Slots(acts) == UNION {{<<bus, acts[bus][k]>> : k \in 1..Len(acts[bus])} : bus \in DOMAIN acts}

\* how one call of _receive_can_frame ends (can.py:78-93): a frame of the
\* expected mux, None on a timeout, or an exception
RecvResults == {"frame", "None", "CriticalFaultError", "RecursionError"}

\* the buses on which send raises OSError during one operation
Downs == {{}} \cup {{bus} : bus \in Buses}

\* one step of an operation on a bus: a frame handed to send, or one call of
\* _receive_can_frame made for actuator id
Event(ev, bus, id, mux, part, scale, res) ==
    [ev |-> ev, bus |-> bus, id |-> id, mux |-> mux, part |-> part, scale |-> scale,
     res |-> res]

Send(bus, id, mux, part, scale, down) ==
    Event("send", bus, id, mux, part, scale, IF bus \in down THEN "OSError" ELSE "ok")

Recv(bus, id, mux, part, res) == Event("recv", bus, id, mux, part, 0, res)

\* the step raises and ends the operation
Raises(e) == e.res \in {"OSError", "CriticalFaultError", "RecursionError", "AssertionError"}

RECURSIVE UpToRaise(_)
\* the steps taken: those of the straight run up to the first that raises
UpToRaise(log) ==
    IF log = <<>> THEN <<>>
    ELSE IF Raises(Head(log)) THEN <<Head(log)>>
    ELSE <<Head(log)>> \o UpToRaise(Tail(log))

\* the record of one operation
Op(name, actions, full) ==
    [name |-> name, actions |-> actions, log |-> UpToRaise(full),
     returned |-> \A k \in 1..Len(full) : ~Raises(full[k])]

\* can.py:160-165: the requests of tranche i (counted from 1)
TrancheSends(acts, i, down) ==
    LET order == BusOrder(acts)
    IN  Concat([k \in 1..Len(order) |->
            IF i <= Len(acts[order[k]])
            THEN <<Send(order[k], acts[order[k]][i], Mux_FEEDBACK, i, 0, down)>>
            ELSE <<>>])

\* can.py:167-181: the responses of tranche i
TrancheRecvs(acts, i, res) ==
    LET order == BusOrder(acts)
    IN  Concat([k \in 1..Len(order) |->
            IF i <= Len(acts[order[k]])
            THEN <<Recv(order[k], acts[order[k]][i], Mux_FEEDBACK, i,
                        res[<<order[k], acts[order[k]][i]>>])>>
            ELSE <<>>])

\* (mutant) one bus after the other, each request followed by its read
M_FeedbackLog(acts, res, down) ==
    LET order == BusOrder(acts)
    IN  Concat([k \in 1..Len(order) |->
            Concat([i \in 1..Len(acts[order[k]]) |->
                <<Send(order[k], acts[order[k]][i], Mux_FEEDBACK, i, 0, down),
                  Recv(order[k], acts[order[k]][i], Mux_FEEDBACK, i,
                       res[<<order[k], acts[order[k]][i]>>])>>])])

\* can.py:155-182 get_actuator_feedback on a non-empty actuators dict:
\* tranche after tranche, the requests, then the reads
FeedbackLog(acts, res, down) ==
    LET max_tranches == Max({Len(acts[bus]) : bus \in DOMAIN acts})
    IN  Concat([i \in 1..max_tranches |->
            TrancheSends(acts, i, down) \o TrancheRecvs(acts, i, res)])

GetActuatorFeedback(acts, res, down) ==
    Op("get_actuator_feedback", {}, FeedbackLog(acts, res, down))

\* can.py:138-146 enable_motors: each actuator is enabled and its response
\* read before the next one
EnableMotors(acts, res, down) ==
    LET order == BusOrder(acts)
    IN  Op("enable_motors", {},
           Concat([k \in 1..Len(order) |->
               Concat([i \in 1..Len(acts[order[k]]) |->
                   <<Send(order[k], acts[order[k]][i], Mux_MOTOR_ENABLE, 0, 0, down),
                     Recv(order[k], acts[order[k]][i], Mux_FEEDBACK, 0,
                          res[<<order[k], acts[order[k]][i]>>])>>])]))

\* (mutant) every discovered actuator is commanded
M_Commanded(actions, id) == TRUE

\* can.py:200, 207 if actuator_id in actions
Commanded(actions, id) == id \in actions

\* can.py:212-224 _build_pd_command_frame: assert 0.0 <= scaling <= 1.0, then
\* the frame is built and handed to send (can.py:201-202)
PdSend(bus, id, scaling, down) ==
    IF scaling < 0 \/ scaling > 1000000
    THEN Event("send", bus, id, Mux_CONTROL, 0, scaling, "AssertionError")
    ELSE Send(bus, id, Mux_CONTROL, 0, scaling, down)

\* can.py:196-210 set_pd_targets: every command is sent, then one response
\* is read for each
SetPdTargets(acts, actions, scaling, res, down) ==
    LET order == BusOrder(acts)
        sends == Concat([k \in 1..Len(order) |->
                     Concat([i \in 1..Len(acts[order[k]]) |->
                         IF Commanded(actions, acts[order[k]][i])
                         THEN <<PdSend(order[k], acts[order[k]][i], scaling, down)>>
                         ELSE <<>>])])
        recvs == Concat([k \in 1..Len(order) |->
                     Concat([i \in 1..Len(acts[order[k]]) |->
                         IF Commanded(actions, acts[order[k]][i])
                         THEN <<Recv(order[k], acts[order[k]][i], Mux_FEEDBACK, 0,
                                     res[<<order[k], acts[order[k]][i]>>])>>
                         ELSE <<>>])])
    IN  Op("set_pd_targets", actions, sends \o recvs)

\* can.py:226-234 flush_can_busses: one read on every bus
FlushCanBusses(acts, res) ==
    LET order == BusOrder(acts)
    IN  Op("flush_can_busses", {},
           [k \in 1..Len(order) |-> Recv(order[k], 0, Mux_FEEDBACK, 0, res[order[k]])])

\* math.exp(math.log(0.001) + (math.log(1.0) - math.log(0.001)) * i / 29) for
\* i = 0..29 (can.py:335), in millionths; the first value is
\* 0.0010000000000000002 and the last is exactly 1.0 in binary64
HomingRamp ==
    << 1000, 1269, 1610, 2043, 2593, 3290, 4175, 5298, 6723, 8532,
       10826, 13738, 17433, 22122, 28072, 35622, 45204, 57362, 72790, 92367,
       117210, 148735, 188739, 239503, 303920, 385662, 489390, 621017, 788046, 1000000 >>

\* (mutant) the ramp is not multiplied by max_scaling
M_HomeScale(i, max) == HomingRamp[i + 1]

\* can.py:335: the scale of homing step i (0..29), in millionths
HomeScale(i, max) == (HomingRamp[i + 1] * (max \div 1000)) \div 1000

nonCanVars == <<mgrVars, procVars, obsVars, appVars, drvVars, rxVars, jdVars, extVars>>

\* can.py:409, 250-266: MotorDriver(dict(), max_scaling=0.1) builds the
\* the record of one scan: that of the operation, and the buses whose bind
\* and test message succeeded (can.py:112-117)
Scan(up, full) ==
    [name |-> "_find_actuators", actions |-> {}, log |-> UpToRaise(full),
     returned |-> \A k \in 1..Len(full) : ~Raises(full[k]), bound |-> up]

\* CANInterface, whose constructor scans the buses (can.py:50-53, 108-131);
\* up: the buses whose socket binds and takes the test message (on any
\* other bus the except clause goes on to the next bus, can.py:116-117);
\* pings: the identifiers that answer the pings of each bus, in order of
\* arrival; a response with a critical fault code ends the scan with
\* CriticalFaultError (can.py:86, 100)
DrvConstruct(up, pings, fault) ==
    /\ can_pc = "construct"
    /\ LET full == Concat([k \in 1..Len(Sorted(up)) |->
                       [j \in 1..Len(pings[Sorted(up)[k]]) |->
                           Recv(Sorted(up)[k], pings[Sorted(up)[k]][j], Mux_PING, 0, "frame")]])
       IN  IF fault
           THEN /\ can_op' = Scan(up, full \o <<Recv(Max(up), 0, Mux_PING, 0,
                                                       "CriticalFaultError")>>)
                /\ can_pc' = "raised"
                /\ UNCHANGED actuators
           ELSE /\ can_op' = Scan(up, full)
                /\ actuators' = FindActuators(up, pings)
                /\ can_pc' = "startup"
    /\ UNCHANGED <<max_scaling, can_enabled, home_cmds, sine_ticks>>
    /\ UNCHANGED nonCanVars

\* the identifiers of the robot whose feedback request got a frame
Answered(acts, res) == {id \in JointIds : \E s \in Slots(acts) : s[2] = id /\ res[s] = "frame"}

\* can.py:268, 305-326 startup_sequence: no actuator, or a joint beyond
\* 2.0 rad, is sys.exit(1); fb holds the readings of the answering actuators
DrvStartup(res, fb, down) ==
    /\ can_pc = "startup"
    /\ IF DOMAIN actuators = {}
       THEN /\ can_pc' = "exited"
            /\ UNCHANGED can_op
       ELSE LET op == GetActuatorFeedback(actuators, res, down)
                data == JointData(fb, [id \in JointIds |-> DummyData(id)])
            IN  /\ can_op' = op
                /\ can_pc' = IF ~op.returned THEN "raised"
                             ELSE IF \E id \in DOMAIN data : TooFar(data[id].angle)
                                  THEN "exited"
                                  ELSE "enable"
    /\ UNCHANGED <<max_scaling, actuators, can_enabled, home_cmds, sine_ticks>>
    /\ UNCHANGED nonCanVars

\* can.py:328-331: self.can.enable_motors(); self._motors_enabled = True
DrvEnable(res, down) ==
    /\ can_pc = "enable"
    /\ LET op == EnableMotors(actuators, res, down)
       IN  /\ can_op' = op
           /\ can_enabled' = op.returned
           /\ can_pc' = IF op.returned THEN "homing" ELSE "raised"
    /\ UNCHANGED <<max_scaling, actuators, home_cmds, sine_ticks>>
    /\ UNCHANGED nonCanVars

\* can.py:334-338, 362-364: one step of the homing ramp; home_positions has
\* an entry for every actuator of the robot (can.py:254-256)
DrvHomeStep(res, down) ==
    /\ can_pc = "homing"
    /\ LET i == Len(home_cmds)
           scale == HomeScale(i, max_scaling)
           op == SetPdTargets(actuators, JointIds, scale, res, down)
       IN  /\ can_op' = op
           /\ home_cmds' = Append(home_cmds, [scale |-> scale, targets |-> "home",
                                               enabled |-> can_enabled])
           /\ can_pc' = IF ~op.returned THEN "raised"
                        ELSE IF i + 1 = RampSteps THEN "sine_feedback"
                        ELSE "homing"
    /\ UNCHANGED <<max_scaling, actuators, can_enabled, sine_ticks>>
    /\ UNCHANGED nonCanVars

\* can.py:346: _ = self.can.get_actuator_feedback()
DrvSineFeedback(res, down) ==
    /\ can_pc = "sine_feedback"
    /\ sine_ticks < MaxSineTicks
    /\ LET op == GetActuatorFeedback(actuators, res, down)
       IN  /\ can_op' = op
           /\ can_pc' = IF op.returned THEN "sine_pd" ELSE "raised"
    /\ UNCHANGED <<max_scaling, actuators, can_enabled, home_cmds, sine_ticks>>
    /\ UNCHANGED nonCanVars

\* can.py:348-351: an action for every actuator of the robot, at max_scaling
DrvSinePd(res, down) ==
    /\ can_pc = "sine_pd"
    /\ LET op == SetPdTargets(actuators, JointIds, max_scaling, res, down)
       IN  /\ can_op' = op
           /\ can_pc' = IF op.returned THEN "sine_flush" ELSE "raised"
    /\ UNCHANGED <<max_scaling, actuators, can_enabled, home_cmds, sine_ticks>>
    /\ UNCHANGED nonCanVars

\* can.py:353, 360: the late frames are drained, then the period is slept
DrvSineFlush(res) ==
    /\ can_pc = "sine_flush"
    /\ LET op == FlushCanBusses(actuators, res)
       IN  /\ can_op' = op
           /\ can_pc' = IF op.returned THEN "sine_feedback" ELSE "raised"
           /\ sine_ticks' = IF op.returned THEN sine_ticks + 1 ELSE sine_ticks
    /\ UNCHANGED <<max_scaling, actuators, can_enabled, home_cmds>>
    /\ UNCHANGED nonCanVars

\* python -m firmware.can has been started
InitDriver ==
    /\ InitSysIdle
    /\ InitExtIdle
    /\ rx_pc = "idle"
    /\ rx_expected = 0
    /\ rx_frames = <<>>
    /\ rx_result = [kind |-> "pending"]
    /\ rx_classified = 0
    /\ driver_module = "can"
    /\ last_known_feedback = <<>>
    /\ jd_answer = [returned |-> FALSE, map |-> <<>>]
    /\ jd_seen = {}
    /\ jd_good = <<>>
    /\ jd_calls = 0
    /\ can_pc = "construct"
    /\ max_scaling \in MaxScalings
    /\ actuators = [bus \in {} |-> <<>>]
    /\ can_enabled = FALSE
    /\ can_op = [name |-> "none", actions |-> {}, log |-> <<>>, returned |-> FALSE]
    /\ home_cmds = <<>>
    /\ sine_ticks = 0

NextDriver ==
    \/ \E up \in SUBSET Buses, fault \in BOOLEAN :
           \E p0 \in SeqsUpTo(PingIds(0), MaxPings), p1 \in SeqsUpTo(PingIds(1), MaxPings) :
               /\ fault => up # {}
               /\ DrvConstruct(up, [bus \in Buses |-> IF bus = 0 THEN p0 ELSE p1], fault)
    \/ \E res \in [Slots(actuators) -> RecvResults], down \in Downs :
           \E fb \in [Answered(actuators, res) -> StartupSamples] : DrvStartup(res, fb, down)
    \/ \E res \in [Slots(actuators) -> RecvResults], down \in Downs : DrvEnable(res, down)
    \/ \E res \in [Slots(actuators) -> RecvResults], down \in Downs : DrvHomeStep(res, down)
    \/ \E res \in [Slots(actuators) -> RecvResults], down \in Downs : DrvSineFeedback(res, down)
    \/ \E res \in [Slots(actuators) -> RecvResults], down \in Downs : DrvSinePd(res, down)
    \/ \E res \in [DOMAIN actuators -> RecvResults] : DrvSineFlush(res)

\* can.py run as a program on arbitrary buses
SpecDriver == InitDriver /\ [][NextDriver]_vars

----------------------------------------------------------------------------
(* firmware/can.py: the frame codec, evaluated on its own *)

\* the manager, the firmware and the can.py driver are not running
InitCoreIdle ==
    /\ InitSysIdle
    /\ InitDrvIdle
    /\ InitCanIdle
    /\ rx_pc = "idle"
    /\ rx_expected = 0
    /\ rx_frames = <<>>
    /\ rx_result = [kind |-> "pending"]
    /\ rx_classified = 0
    /\ driver_module = "can"
    /\ last_known_feedback = <<>>
    /\ jd_answer = [returned |-> FALSE, map |-> <<>>]
    /\ jd_seen = {}
    /\ jd_good = <<>>
    /\ jd_calls = 0

\* the state outside the evaluation
InitCalc == InitCoreIdle /\ InitPoolIdle /\ InitImuIdle /\ InitLogIdle /\ InitMoreIdle

\* one more result of the evaluation
CalcStep(from, to, result) ==
    /\ calc_pc = from
    /\ calc_pc' = to
    /\ calc_out' = Append(calc_out, result)
    /\ UNCHANGED calc_in
    /\ UNCHANGED <<coreVars, notCalc>>

\* bytes.ljust(8, b"\x00") of payload[:8]: the "8s" field of struct.pack
\* takes eight bytes and pads a shorter value with zero bytes
Pad8(payload) == [k \in 1..8 |-> IF k <= Len(payload) THEN payload[k] ELSE 0]

\* (mutant) the mux is or-ed in without the shift to bit 24
M_BuildCanFrame(actuator_can_id, mux, payload) ==
    [ can_id |-> (actuator_can_id % 256) + HOST_ID * 256 + (mux % 32),
      eff |-> TRUE, len |-> 8, payload |-> Pad8(payload) ]

\* can.py:56-58 _build_can_frame: the identifier word without its flag bit
\* EFF (bit 31, kept apart), the length byte 8, three zero bytes and the
\* payload, 16 bytes in all
BuildCanFrame(actuator_can_id, mux, payload) ==
    [ can_id |-> (actuator_can_id % 256) + HOST_ID * 256 + (mux % 32) * 16777216,
      eff |-> TRUE, len |-> 8, payload |-> Pad8(payload) ]

\* structured values whose fields are in range
CodecInputs ==
    [ actuator_can_id : {0, 11, 12, 49, 253, 255},
      mux : {Mux_PING, Mux_CONTROL, Mux_FEEDBACK, Mux_MOTOR_ENABLE, Mux_FAULT_RESPONSE, 31},
      payload : { [k \in 1..8 |-> 0], [k \in 1..8 |-> k], [k \in 1..8 |-> 255] } ]

InitCodec ==
    /\ InitCalc
    /\ calc_pc = "build"
    /\ calc_in \in CodecInputs
    /\ calc_out = <<>>

\* f = pack(v)
CodecBuild ==
    CalcStep("build", "parse",
             BuildCanFrame(calc_in.actuator_can_id, calc_in.mux, calc_in.payload))

\* unpack(f)
CodecParse == CalcStep("parse", "rebuild", ParseCanFrame(calc_out[1]))

\* pack(unpack(f)), from the fields of the same names
CodecRebuild ==
    CalcStep("rebuild", "done",
             BuildCanFrame(calc_out[2].actuator_can_id, calc_out[2].mux, calc_out[2].payload))

NextCodec == CodecBuild \/ CodecParse \/ CodecRebuild

\* a frame is built, parsed and built again from what was parsed
SpecCodec == InitCodec /\ [][NextCodec]_vars

----------------------------------------------------------------------------
(* firmware/actuators.py: the conversions between wire and physical values *)

\* actuators.py:24-29
RobstrideActuatorType ==
    {"Robstride00", "Robstride01", "Robstride02", "Robstride03", "Robstride04"}

\* actuators.py:125-190 actuator_ranges: the endpoints of angle (in units of
\* pi), velocity and torque of each family
ActuatorRanges(actuator_type) ==
    CASE actuator_type = "Robstride00" ->
            [angle |-> <<-4, 4>>, velocity |-> <<-33, 33>>, torque |-> <<-14, 14>>]
      [] actuator_type \in {"Robstride01", "Robstride02"} ->
            [angle |-> <<-4, 4>>, velocity |-> <<-44, 44>>, torque |-> <<-17, 17>>]
      [] actuator_type = "Robstride03" ->
            [angle |-> <<-4, 4>>, velocity |-> <<-20, 20>>, torque |-> <<-60, 60>>]
      [] OTHER ->
            [angle |-> <<-4, 4>>, velocity |-> <<-15, 15>>, torque |-> <<-120, 120>>]

\* actuators.py:68-70, 76-78, 84-86 can_to_physical_*:
\* min + raw / 65535 * (max - min), as the numerator over 65535
CanToPhysical(range, can_value) == range[1] * 65535 + can_value * (range[2] - range[1])

\* (mutant) the lower endpoint is not taken off
M_PhysicalToCan(range, physical_value, err) ==
    (physical_value * 100) \div (range[2] - range[1]) + err

\* actuators.py:72-74, 80-82, 88-90 physical_to_can_*:
\* (physical - min) / (max - min) * 65535, in hundredths of a wire unit;
\* physical_value is a numerator over 65535. In binary64 each of the
\* operations rounds, so that the result lies next to the exact value on
\* either side: err, far less than a hundredth in the code.
PhysicalToCan(range, physical_value, err) ==
    ((physical_value - range[1] * 65535) * 100) \div (range[2] - range[1]) + err

\* int(x) of a value in hundredths: truncation towards zero (can.py:216-218)
IntOf(hundredths) ==
    IF hundredths >= 0 THEN hundredths \div 100 ELSE -((-hundredths) \div 100)

\* the 16-bit raw values, in blocks of 256
RawBlocks == {256 * k : k \in 0..255}
Block(first) == first..(first + 255)

InitConvert ==
    /\ InitCalc
    /\ calc_pc = "to_physical"
    /\ calc_in \in [actuator_type : RobstrideActuatorType,
                    field : {"angle", "velocity", "torque"},
                    first : RawBlocks]
    /\ calc_out = <<>>

\* every raw value of the block is converted to its physical value
ConvertToPhysical ==
    CalcStep("to_physical", "to_can",
             [r \in Block(calc_in.first) |->
                 CanToPhysical(ActuatorRanges(calc_in.actuator_type)[calc_in.field], r)])

\* and back, truncated to an integer
ConvertToCan(err) ==
    CalcStep("to_can", "done",
             [r \in Block(calc_in.first) |->
                 IntOf(PhysicalToCan(ActuatorRanges(calc_in.actuator_type)[calc_in.field],
                                     calc_out[1][r], err))])

NextConvert == ConvertToPhysical \/ \E err \in {-1, 0, 1} : ConvertToCan(err)

\* raw values are converted to physical values and back
SpecConvert == InitConvert /\ [][NextConvert]_vars

----------------------------------------------------------------------------
(* firmware/can.py: building a PD command frame *)

\* actuators.py:196-212, 111-117: raw_kp and raw_kd of actuators 11 and 12
\* (Robstride03, kp 100 of 5000, kd 8.284 and 8.257 of 100), in hundredths
\* of a wire unit
RawKp(id) == 131070
RawKd(id) == IF id = 11 THEN 542891 ELSE 541122

\* struct.pack(">H", v) takes an integer in 0..65535 and raises struct.error
\* for any other
FitsU16(v) == v >= 0 /\ v <= 65535

\* can.py:212-224 _build_pd_command_frame for an actuator of the robot's
\* table; angle is a numerator over 65535 in units of pi, scaling is in
\* millionths, err the rounding of the angle conversion
BuildPdCommandFrame(actuator_can_id, angle, scaling, err) ==
    LET ranges == ActuatorRanges("Robstride03")
        raw_torque == IntOf(PhysicalToCan(ranges.torque, 0, 0))
        raw_angle == IntOf(PhysicalToCan(ranges.angle, angle, err))
        raw_ang_vel == IntOf(PhysicalToCan(ranges.velocity, 0, 0))
        raw_kp == IntOf((RawKp(actuator_can_id) * (scaling \div 1000)) \div 1000)
        raw_kd == IntOf((RawKd(actuator_can_id) * (scaling \div 1000)) \div 1000)
    IN  IF scaling < 0 \/ scaling > 1000000
        THEN [kind |-> "AssertionError", raw_angle |-> raw_angle]
        ELSE IF \E v \in {raw_angle, raw_ang_vel, raw_kp, raw_kd} : ~FitsU16(v)
        THEN [kind |-> "struct.error", raw_angle |-> raw_angle]
        ELSE [kind |-> "frame", raw_angle |-> raw_angle,
              can_id |-> (actuator_can_id % 256) + raw_torque * 256 + Mux_CONTROL * 16777216,
              eff |-> TRUE, len |-> 8,
              payload |-> <<raw_angle, raw_ang_vel, raw_kp, raw_kd>>]

\* target angles from -5 pi to 5 pi, and those around the endpoints -4 pi
\* and 4 pi of the family
PdAngles ==
    {k * 32768 : k \in -10..10} \cup {-262148, -262141, -262140, 262140, 262144, 262148}

InitPd ==
    /\ InitCalc
    /\ calc_pc = "build_pd"
    /\ calc_in \in [actuator_can_id : JointIds, angle : PdAngles,
                    scaling : {0, 100000, 500000, 1000000}]
    /\ calc_out = <<>>

PdBuild(err) ==
    CalcStep("build_pd", "done",
             BuildPdCommandFrame(calc_in.actuator_can_id, calc_in.angle, calc_in.scaling, err))

NextPd == \E err \in {-1, 0, 1} : PdBuild(err)

\* one PD command frame is built
SpecPd == InitPd /\ [][NextPd]_vars

----------------------------------------------------------------------------
(* firmware/driver.py: the MotorDriver that fans out over a worker pool *)

\* MotorDriver calls in one run
MaxPoolCalls == 2

\* driver.py:36-39: max_workers = len(self.cans), one worker per bus, none
\* of them bound to a bus
Workers == {1, 2}

\* the per-bus operations the MotorDriver fans out, with
\* wait_for_response: driver.py:96 disable_motors, 127 enable_motors,
\* 173 set_pd_targets (False), 177 flush_can_bus_completely,
\* 180 get_actuator_feedback
PoolOps ==
    { [name |-> "get_actuator_feedback", wait |-> TRUE],
      [name |-> "set_pd_targets", wait |-> FALSE],
      [name |-> "flush_can_bus_completely", wait |-> TRUE],
      [name |-> "enable_motors", wait |-> TRUE],
      [name |-> "disable_motors", wait |-> TRUE] }

\* the work item of call n for a bus: a method of that bus's interface,
\* which sends and receives on the socket the interface owns
WorkItem(n, bus, name) == [call |-> n, bus |-> bus, name |-> name]

\* a fresh MotorDriver with an interface on every bus (driver.py:17-54)
InitPool ==
    /\ InitCoreIdle
    /\ InitCalcIdle
    /\ InitImuIdle
    /\ InitLogIdle
    /\ InitMoreIdle
    /\ pool_queue = <<>>
    /\ pool_workers = [w \in Workers |-> <<>>]
    /\ pool_done = {}
    /\ pool_raised = {}
    /\ pool_caller = [pc |-> "idle", pending |-> <<>>]
    /\ pool_calls = 0

\* driver.py:59-66 async_can: one work item per bus is submitted, in the
\* order of self.cans; without wait_for_response the call returns at once
PoolSubmit(op) ==
    /\ pool_caller.pc = "idle"
    /\ pool_calls < MaxPoolCalls
    /\ LET order == Sorted(Buses)
           items == [k \in 1..Len(order) |-> WorkItem(pool_calls + 1, order[k], op.name)]
       IN  /\ pool_queue' = pool_queue \o items
           /\ pool_caller' = IF op.wait
                             THEN [pc |-> "joining", pending |-> items, name |-> op.name,
                                   combined |-> {}, missed |-> {}]
                             ELSE [pc |-> "idle", pending |-> <<>>]
    /\ pool_calls' = pool_calls + 1
    /\ UNCHANGED <<pool_workers, pool_done, pool_raised>>
    /\ UNCHANGED <<coreVars, notPool>>

\* ThreadPoolExecutor: an idle worker takes the oldest work item
PoolTake(w) ==
    /\ pool_workers[w] = <<>>
    /\ pool_queue # <<>>
    /\ pool_workers' = [pool_workers EXCEPT ![w] = Head(pool_queue)]
    /\ pool_queue' = Tail(pool_queue)
    /\ UNCHANGED <<pool_done, pool_raised, pool_caller, pool_calls>>
    /\ UNCHANGED <<coreVars, notPool>>

\* the operation on the bus ends (ok: it returns, else it raises; either
\* way the future is done)
PoolFinish(w, ok) ==
    /\ pool_workers[w] # <<>>
    /\ pool_done' = pool_done \cup {pool_workers[w]}
    /\ pool_raised' = IF ok THEN pool_raised ELSE pool_raised \cup {pool_workers[w]}
    /\ pool_workers' = [pool_workers EXCEPT ![w] = <<>>]
    /\ UNCHANGED <<pool_queue, pool_caller, pool_calls>>
    /\ UNCHANGED <<coreVars, notPool>>

\* the operations whose per-bus method returns a value other than None
HasResult(name) == name = "get_actuator_feedback"

\* (mutant) the result of a future is taken without a timeout and without
\* the try
M_Merged(item, late, raised) == HasResult(item.name)

\* driver.py:69-78: the result of a future is merged into combined_results
\* when future.result returned it within the timeout and it is not None;
\* the TimeoutError of a late future and the exception of a failed
\* operation are caught by except Exception
Merged(item, late, raised) == ~late /\ ~raised /\ HasResult(item.name)

\* driver.py:68-80: future.result(timeout=timeout) of the next work item;
\* late: the timeout passes first, the exception is caught and the work
\* item is left to run; after the last future combined_results is returned
PoolJoin(late) ==
    /\ pool_caller.pc = "joining"
    /\ late = (Head(pool_caller.pending) \notin pool_done)
    /\ LET item == Head(pool_caller.pending)
           raised == item \in pool_raised
           done == Len(pool_caller.pending) = 1
       IN  pool_caller' =
               [pool_caller EXCEPT
                   !.pc = IF done THEN "idle" ELSE @,
                   !.pending = Tail(@),
                   !.combined = IF Merged(item, late, raised) THEN @ \cup {item.bus} ELSE @,
                   !.missed = IF late \/ raised THEN @ \cup {item.bus} ELSE @]
    /\ UNCHANGED <<pool_queue, pool_workers, pool_done, pool_raised, pool_calls>>
    /\ UNCHANGED <<coreVars, notPool>>

NextPool ==
    \/ \E op \in PoolOps : PoolSubmit(op)
    \/ \E w \in Workers : PoolTake(w)
    \/ \E w \in Workers, ok \in BOOLEAN : PoolFinish(w, ok)
    \/ \E late \in BOOLEAN : PoolJoin(late)

\* the calls of one thread on the MotorDriver of driver.py
SpecPool == InitPool /\ [][NextPool]_vars

----------------------------------------------------------------------------
(* firmware/imu/hiwonder.py: the sampling process, the shared-memory
   record and the control loop's read *)

MaxPackets == 3
MaxImuReads == 2

\* the fields of RECORD_STRUCT in the order they lie in the region
\* (hiwonder.py:13-14)
RecordFields == <<"timestamp", "gyro", "quaternion">>

\* open_or_create_mmap (hiwonder.py:17-24): a new file is all zero bytes
ZeroRecord == [timestamp |-> 0, gyro |-> 0, quaternion |-> 0]

\* the packets the serial port delivers: a gyro packet (0x52), a quaternion
\* packet (0x59), another valid packet, or one whose length or checksum is
\* wrong (hiwonder.py:128-138)
PacketKinds == {"gyro", "quaternion", "other", "bad"}

\* the value the return statements at hiwonder.py:200 and 204 give
ImuDefaults == [kind |-> "defaults"]

\* the mutant of CanAcquire: the lock is not taken
M_CanAcquire(holders) == TRUE

\* `with shm_lock` (hiwonder.py:141, 185): a multiprocessing.Lock is
\* acquired only while nobody holds it
CanAcquire(holders) == holders = {}

\* Hiwonder.__init__ (hiwonder.py:70-90): the region is mapped, the lock
\* and the event are created, start() sets the event and starts the process
InitImu ==
    /\ InitCoreIdle
    /\ InitCalcIdle
    /\ InitPoolIdle
    /\ InitLogIdle
    /\ InitMoreIdle
    /\ shm_lock = {}
    /\ shm_record = ZeroRecord
    /\ imu_running = TRUE
    /\ imu_closed = FALSE
    /\ imu_proc = [pc |-> "loop", packets |-> 0, gyro |-> 0, quaternion |-> 0,
                   record |-> ZeroRecord]
    /\ imu_reader = [pc |-> "idle", buf |-> <<>>, handler |-> "none"]
    /\ imu_result = <<>>
    /\ imu_written = {}
    /\ imu_reads = 0

\* hiwonder.py:125-139: one pass of the loop that reads a packet; a valid
\* packet replaces last_gyro or last_quaternion and is packed, with its
\* timestamp, into one record
ImuPacket(kind) ==
    /\ imu_proc.pc = "loop"
    /\ imu_running
    /\ imu_proc.packets < MaxPackets
    /\ LET n == imu_proc.packets + 1
           g == IF kind = "gyro" THEN n ELSE imu_proc.gyro
           q == IF kind = "quaternion" THEN n ELSE imu_proc.quaternion
       IN  imu_proc' = IF kind = "bad"
                       THEN [imu_proc EXCEPT !.packets = n]
                       ELSE [pc |-> "packed", packets |-> n, gyro |-> g, quaternion |-> q,
                             record |-> [timestamp |-> n, gyro |-> g, quaternion |-> q]]
    /\ UNCHANGED <<shm_lock, shm_record, imu_running, imu_closed, imu_reader, imu_result,
                   imu_written, imu_reads>>
    /\ UNCHANGED <<coreVars, notImu>>

\* hiwonder.py:141-142: the sampling process takes the lock
ImuWriterLock ==
    /\ imu_proc.pc = "packed"
    /\ CanAcquire(shm_lock)
    /\ shm_lock' = shm_lock \cup {"writer"}
    /\ imu_proc' = [imu_proc EXCEPT !.pc = "timestamp"]
    /\ UNCHANGED <<shm_record, imu_running, imu_closed, imu_reader, imu_result, imu_written,
                   imu_reads>>
    /\ UNCHANGED <<coreVars, notImu>>

\* the field after f in the region, or "end"
NextField(f) ==
    IF f = "timestamp" THEN "gyro" ELSE IF f = "gyro" THEN "quaternion" ELSE "end"

\* hiwonder.py:143: shm.write copies the record into the region, one field
\* after the other
ImuWriteField ==
    /\ imu_proc.pc \in Range(RecordFields)
    /\ shm_record' = [shm_record EXCEPT ![imu_proc.pc] = imu_proc.record[imu_proc.pc]]
    /\ imu_proc' = [imu_proc EXCEPT !.pc = NextField(@)]
    /\ imu_written' = IF NextField(imu_proc.pc) = "end"
                      THEN imu_written \cup {imu_proc.record}
                      ELSE imu_written
    /\ UNCHANGED <<shm_lock, imu_running, imu_closed, imu_reader, imu_result, imu_reads>>
    /\ UNCHANGED <<coreVars, notImu>>

\* hiwonder.py:141: leaving the with block releases the lock
ImuWriterUnlock ==
    /\ imu_proc.pc = "end"
    /\ shm_lock' = shm_lock \ {"writer"}
    /\ imu_proc' = [imu_proc EXCEPT !.pc = "loop"]
    /\ UNCHANGED <<shm_record, imu_running, imu_closed, imu_reader, imu_result, imu_written,
                   imu_reads>>
    /\ UNCHANGED <<coreVars, notImu>>

\* hiwonder.py:125, 145-146: the loop test finds the event cleared
ImuLoopExit ==
    /\ imu_proc.pc = "loop"
    /\ ~imu_running
    /\ imu_proc' = [imu_proc EXCEPT !.pc = "exited"]
    /\ UNCHANGED <<shm_lock, shm_record, imu_running, imu_closed, imu_reader, imu_result,
                   imu_written, imu_reads>>
    /\ UNCHANGED <<coreVars, notImu>>

\* the control loop is not inside the signal handler
ReaderRuns == imu_reader.handler # "joining"

\* hiwonder.py:183-186: get_projected_gravity_and_gyroscope takes the lock
\* and seeks to the start; on a closed mmap the seek raises and the except
\* clause returns the defaults (hiwonder.py:202-204)
ImuReaderLock ==
    /\ imu_reader.pc = "idle"
    /\ ReaderRuns
    /\ imu_reads < MaxImuReads
    /\ CanAcquire(shm_lock)
    /\ imu_reads' = imu_reads + 1
    /\ IF imu_closed
       THEN /\ imu_result' = ImuDefaults
            /\ UNCHANGED <<shm_lock, imu_reader>>
       ELSE /\ shm_lock' = shm_lock \cup {"reader"}
            /\ imu_reader' = [imu_reader EXCEPT !.pc = "timestamp", !.buf = <<>>]
            /\ UNCHANGED imu_result
    /\ UNCHANGED <<shm_record, imu_running, imu_closed, imu_proc, imu_written>>
    /\ UNCHANGED <<coreVars, notImu>>

\* hiwonder.py:187: self.shm.read copies the region, one field after the
\* other; a mmap closed since the seek makes the read raise
ImuReadField ==
    /\ imu_reader.pc \in Range(RecordFields)
    /\ ReaderRuns
    /\ IF imu_closed
       THEN /\ imu_reader' = [imu_reader EXCEPT !.pc = "idle", !.buf = <<>>]
            /\ shm_lock' = shm_lock \ {"reader"}
            /\ imu_result' = ImuDefaults
       ELSE /\ imu_reader' = [imu_reader EXCEPT !.pc = NextField(@),
                                                !.buf = Append(@, shm_record[imu_reader.pc])]
            /\ UNCHANGED <<shm_lock, imu_result>>
    /\ UNCHANGED <<shm_record, imu_running, imu_closed, imu_proc, imu_written, imu_reads>>
    /\ UNCHANGED <<coreVars, notImu>>

\* hiwonder.py:185, 189-197: the lock is released and the record unpacked
ImuReaderUnlock ==
    /\ imu_reader.pc = "end"
    /\ ReaderRuns
    /\ shm_lock' = shm_lock \ {"reader"}
    /\ imu_result' = [kind |-> "record",
                      record |-> [timestamp |-> imu_reader.buf[1], gyro |-> imu_reader.buf[2],
                                  quaternion |-> imu_reader.buf[3]]]
    /\ imu_reader' = [imu_reader EXCEPT !.pc = "idle", !.buf = <<>>]
    /\ UNCHANGED <<shm_record, imu_running, imu_closed, imu_proc, imu_written, imu_reads>>
    /\ UNCHANGED <<coreVars, notImu>>

\* hiwonder.py:95-100: _safe_shutdown, run by a signal on the main thread
\* between two bytecodes of the control loop (never inside the copy of
\* self.shm.read): it closes the mmap, clears the event and joins the
\* sampling process for up to a second
ImuSafeShutdown ==
    /\ imu_reader.handler = "none"
    /\ imu_reader.pc \in {"idle", "timestamp", "end"}
    /\ imu_closed' = TRUE
    /\ imu_running' = FALSE
    /\ imu_reader' = [imu_reader EXCEPT !.handler = "joining"]
    /\ UNCHANGED <<shm_lock, shm_record, imu_proc, imu_result, imu_written, imu_reads>>
    /\ UNCHANGED <<coreVars, notImu>>

\* hiwonder.py:100-103: the join returns: the process has exited, or the
\* second has passed and terminate() is called; kills: SIGTERM ends the
\* process where it stands (else it runs on until it sees the event)
ImuJoinReturns(kills) ==
    /\ imu_reader.handler = "joining"
    /\ imu_reader' = [imu_reader EXCEPT !.handler = "returned"]
    /\ IF imu_proc.pc = "exited"
       THEN ~kills /\ UNCHANGED imu_proc
       ELSE imu_proc' = IF kills THEN [imu_proc EXCEPT !.pc = "killed"] ELSE imu_proc
    /\ UNCHANGED <<shm_lock, shm_record, imu_running, imu_closed, imu_result, imu_written,
                   imu_reads>>
    /\ UNCHANGED <<coreVars, notImu>>

NextImu ==
    \/ \E kind \in PacketKinds : ImuPacket(kind)
    \/ ImuWriterLock
    \/ ImuWriteField
    \/ ImuWriterUnlock
    \/ ImuLoopExit
    \/ ImuReaderLock
    \/ ImuReadField
    \/ ImuReaderUnlock
    \/ ImuSafeShutdown
    \/ \E kills \in BOOLEAN : ImuJoinReturns(kills)

\* the sampling process and the control loop's reads of one Hiwonder
SpecImu == InitImu /\ [][NextImu]_vars

----------------------------------------------------------------------------
(* firmware/logger.py: Logger, its queue, its worker thread and _shutdown *)

MaxLogs == 3

\* Logger.__init__ (logger.py:16-27): running is set, the queue is empty
\* and the worker thread has been started
InitLogger ==
    /\ InitCoreIdle
    /\ InitCalcIdle
    /\ InitPoolIdle
    /\ InitImuIdle
    /\ InitMoreIdle
    /\ log_running = TRUE
    /\ log_queue = <<>>
    /\ log_unfinished = 0
    /\ log_worker = [pc |-> "start", batch |-> <<>>]
    /\ log_file = <<>>
    /\ log_shutdown = "none"
    /\ log_puts = 0

\* logger.py:21: queue.Queue() is built without maxsize, which is then 0:
\* the queue has no capacity and put never blocks
QueueMaxsize == 0

\* logger.py:54-55: log() puts one record (put waits while a queue with a
\* capacity is full); it is called from the control loop, which does not
\* run while _shutdown does
LogPut ==
    /\ log_shutdown = "none"
    /\ log_puts < MaxLogs
    /\ QueueMaxsize = 0 \/ Len(log_queue) < QueueMaxsize
    /\ log_puts' = log_puts + 1
    /\ log_queue' = Append(log_queue, log_puts + 1)
    /\ log_unfinished' = log_unfinished + 1
    /\ UNCHANGED <<log_running, log_worker, log_file, log_shutdown>>
    /\ UNCHANGED <<coreVars, notLog>>

\* logger.py:31-33: the worker creates the directory and opens the file;
\* ok: neither raises
LogWorkerStart(ok) ==
    /\ log_worker.pc = "start"
    /\ log_worker' = [log_worker EXCEPT !.pc = IF ok THEN "test" ELSE "dead"]
    /\ UNCHANGED <<log_running, log_queue, log_unfinished, log_file, log_shutdown, log_puts>>
    /\ UNCHANGED <<coreVars, notLog>>

\* logger.py:34: while self.running or not q.empty()
AfterTest(running, q) == IF running \/ q # <<>> THEN "drain" ELSE "exited"

LogWorkerTest ==
    /\ log_worker.pc = "test"
    /\ log_worker' = [log_worker EXCEPT !.pc = AfterTest(log_running, log_queue)]
    /\ UNCHANGED <<log_running, log_queue, log_unfinished, log_file, log_shutdown, log_puts>>
    /\ UNCHANGED <<coreVars, notLog>>

\* logger.py:36-38: get_nowait() and task_done() for one record
LogWorkerGet ==
    /\ log_worker.pc = "drain"
    /\ log_queue # <<>>
    /\ log_worker' = [log_worker EXCEPT !.batch = Append(@, Head(log_queue))]
    /\ log_queue' = Tail(log_queue)
    /\ log_unfinished' = log_unfinished - 1
    /\ UNCHANGED <<log_running, log_file, log_shutdown, log_puts>>
    /\ UNCHANGED <<coreVars, notLog>>

\* logger.py:39-44: the queue is empty: the batch, if any, is serialised and
\* written, then the worker waits a second; ok: json.dumps, write and flush
\* do not raise (an exception ends the thread)
LogWorkerEmpty(ok) ==
    /\ log_worker.pc = "drain"
    /\ log_queue = <<>>
    /\ ok \/ log_worker.batch # <<>>
    /\ IF ok
       THEN /\ log_file' = log_file \o log_worker.batch
            /\ log_worker' = [pc |-> "test", batch |-> <<>>]
       ELSE /\ log_worker' = [log_worker EXCEPT !.pc = "dead"]
            /\ UNCHANGED log_file
    /\ UNCHANGED <<log_running, log_queue, log_unfinished, log_shutdown, log_puts>>
    /\ UNCHANGED <<coreVars, notLog>>

\* logger.py:46-50: _shutdown starts: it returns at once when running is
\* already cleared, else it clears running
LogShutdownStart ==
    /\ log_shutdown = "none"
    /\ IF ~log_running
       THEN log_shutdown' = "returned" /\ UNCHANGED log_running
       ELSE log_shutdown' = "queue_join" /\ log_running' = FALSE
    /\ UNCHANGED <<log_queue, log_unfinished, log_worker, log_file, log_puts>>
    /\ UNCHANGED <<coreVars, notLog>>

\* logger.py:51: self.queue.join() returns once every record put has been
\* marked done; it takes no timeout
LogShutdownQueueJoin ==
    /\ log_shutdown = "queue_join"
    /\ log_unfinished = 0
    /\ log_shutdown' = "thread_join"
    /\ UNCHANGED <<log_running, log_queue, log_unfinished, log_worker, log_file, log_puts>>
    /\ UNCHANGED <<coreVars, notLog>>

\* logger.py:52: self.thread.join(timeout=2.0) returns when the worker has
\* ended or two seconds have passed
LogShutdownThreadJoin ==
    /\ log_shutdown = "thread_join"
    /\ log_shutdown' = "returned"
    /\ UNCHANGED <<log_running, log_queue, log_unfinished, log_worker, log_file, log_puts>>
    /\ UNCHANGED <<coreVars, notLog>>

NextLogger ==
    \/ LogPut
    \/ \E ok \in BOOLEAN : LogWorkerStart(ok)
    \/ LogWorkerTest
    \/ LogWorkerGet
    \/ \E ok \in BOOLEAN : LogWorkerEmpty(ok)
    \/ LogShutdownStart
    \/ LogShutdownQueueJoin
    \/ LogShutdownThreadJoin

\* one Logger: the records logged, the worker thread and one _shutdown
SpecLogger == InitLogger /\ [][NextLogger]_vars

----------------------------------------------------------------------------
(* firmware/commands: CommandInterface and its Keyboard source; values are
   hundredths *)

\* two of the commands of the keyboard: a velocity and a pose command
CommandNames == {"xvel", "baseroll"}

\* keyboard.py:70-97: the keys and what they add to a command; "0" resets
Keys ==
    { [ch |-> "0", name |-> "", delta |-> 0],
      [ch |-> "w", name |-> "xvel", delta |-> 10],
      [ch |-> "s", name |-> "xvel", delta |-> -10],
      [ch |-> "r", name |-> "baseroll", delta |-> 10],
      [ch |-> "f", name |-> "baseroll", delta |-> -10] }

\* command_interface.py:17 self.max_delta = 0.05
max_delta == 5

\* keyboard.py:100-104: velocity commands are clamped to 0.8, the others
\* to 0.3
KeyClamp(name) == IF name \in {"xvel", "yvel", "yawrate"} THEN 80 ELSE 30

Clip(lo, hi, v) == IF v < lo THEN lo ELSE IF v > hi THEN hi ELSE v

Zeros == [name \in CommandNames |-> 0]

\* Keyboard.__init__ (keyboard.py:41-52, command_interface.py:13-30): the
\* commands are zero, last_cmd is empty and the reader thread is started
InitCmd ==
    /\ InitCoreIdle
    /\ InitCalcIdle
    /\ InitPoolIdle
    /\ InitImuIdle
    /\ InitLogIdle
    /\ InitLaunchIdle
    /\ InitFbIdle
    /\ InitClIdle
    /\ InitPmIdle
    /\ cmd = Zeros
    /\ last_cmd = Zeros
    /\ kb_pc = "idle"
    /\ cmd_out = <<>>
    /\ cmd_since = FALSE

\* keyboard.py:67-97: the reader thread reads a key and applies it: "0"
\* calls reset_cmd (command_interface.py:51-54), any other key adds its
\* delta to one command
KbKey(key) ==
    /\ kb_pc = "idle"
    /\ IF key.ch = "0"
       THEN /\ cmd' = Zeros
            /\ last_cmd' = Zeros
            /\ cmd_since' = TRUE
       ELSE /\ cmd' = [cmd EXCEPT ![key.name] = @ + key.delta]
            /\ UNCHANGED <<last_cmd, cmd_since>>
    /\ kb_pc' = "clamp"
    /\ UNCHANGED cmd_out
    /\ UNCHANGED <<coreVars, notCmd>>

\* keyboard.py:99-104: the reader thread clamps every command
KbClamp ==
    /\ kb_pc = "clamp"
    /\ cmd' = [name \in CommandNames |-> Clip(-KeyClamp(name), KeyClamp(name), cmd[name])]
    /\ kb_pc' = "idle"
    /\ UNCHANGED <<last_cmd, cmd_out, cmd_since>>
    /\ UNCHANGED <<coreVars, notCmd>>

\* (mutant) the command is returned as it stands
M_Clamped(last_value, value) == value

\* command_interface.py:65-66: the value is clamped to max_delta around the
\* last value (the names of the commands are no joint names, so line 69
\* does not apply)
Clamped(last_value, value) == Clip(last_value - max_delta, last_value + max_delta, value)

\* command_interface.py:56-78, keyboard.py:125-137 with no motion active:
\* the control loop calls get_cmd, at any point of the reader thread
GetCmd ==
    /\ kb_pc # "none"
    /\ LET clamped_cmd == [name \in CommandNames |-> Clamped(last_cmd[name], cmd[name])]
       IN  /\ last_cmd' = clamped_cmd
           /\ cmd_out' = clamped_cmd
    /\ cmd_since' = FALSE
    /\ UNCHANGED <<cmd, kb_pc>>
    /\ UNCHANGED <<coreVars, notCmd>>

NextCmd ==
    \/ \E key \in Keys : KbKey(key)
    \/ KbClamp
    \/ GetCmd

\* the reader thread of a Keyboard and the control loop's get_cmd calls
SpecCmd == InitCmd /\ [][NextCmd]_vars

----------------------------------------------------------------------------
(* CANInterface.get_actuator_feedback, the map it builds: firmware/can.py *)

\* the identifiers a frame on the bus can carry
FrameIds == {11, 12, 14}
\* the angle words of the frames
FrameAngles == {0, 1}

\* can.py:60-76, 184-194: a feedback frame as parsed, with one of its
\* data words
FeedbackFrames == [actuator_can_id : FrameIds, angle_raw : FrameAngles]

\* the actuator maps of the exchanges followed
ActuatorMaps == {(0 :> <<11, 14>>) @@ (1 :> <<12>>), (0 :> <<11>>) @@ (1 :> <<12, 14>>)}

\* can.py:159-170: the actuators awaited, in the order of the receive
\* calls: tranche after tranche, bus after bus
Awaited(acts) ==
    LET order == BusOrder(acts)
        max_tranches == Max({Len(acts[bus]) : bus \in DOMAIN acts})
    IN  Concat([i \in 1..max_tranches |->
            Concat([k \in 1..Len(order) |->
                IF i <= Len(acts[order[k]]) THEN <<acts[order[k]][i]>> ELSE <<>>])])

\* State after CANInterface.__init__ has found the actuators
InitFeedback ==
    /\ InitCoreIdle
    /\ InitCalcIdle
    /\ InitPoolIdle
    /\ InitImuIdle
    /\ InitLogIdle
    /\ InitCmdIdle
    /\ InitLaunchIdle
    /\ InitClIdle
    /\ InitPmIdle
    /\ fb_pc = "idle"
    /\ fb_acts \in ActuatorMaps
    /\ fb_k = 0
    /\ fb_results = <<>>
    /\ fb_received = <<>>

\* can.py:155-158: a call starts with an empty results dict
FbStart ==
    /\ fb_pc \in {"idle", "returned", "raised"}
    /\ fb_pc' = "reading"
    /\ fb_k' = 0
    /\ fb_results' = <<>>
    /\ fb_received' = <<>>
    /\ UNCHANGED fb_acts
    /\ UNCHANGED <<coreVars, notFb>>

\* the position after a receive call
AfterRecv(k, acts) == IF k = Len(Awaited(acts)) THEN "returned" ELSE "reading"

\* (mutant) the record is stored under the identifier awaited
M_StoreKey(actuator_id, result) == actuator_id

\* can.py:176-181: the record is stored under the identifier of the frame
StoreKey(actuator_id, result) ==
    IF actuator_id # result.actuator_can_id THEN result.actuator_can_id ELSE actuator_id

\* can.py:171-181: a feedback frame is received and stored
FbRecv(frame) ==
    /\ fb_pc = "reading"
    /\ LET actuator_id == Awaited(fb_acts)[fb_k + 1]
           key == StoreKey(actuator_id, frame)
       IN  /\ fb_results' = [id \in DOMAIN fb_results \cup {key} |->
                                IF id = key THEN frame ELSE fb_results[id]]
           /\ fb_received' = Append(fb_received, [awaited |-> actuator_id, frame |-> frame])
    /\ fb_k' = fb_k + 1
    /\ fb_pc' = AfterRecv(fb_k + 1, fb_acts)
    /\ UNCHANGED fb_acts
    /\ UNCHANGED <<coreVars, notFb>>

\* can.py:172-174: the receive call timed out
FbTimeout ==
    /\ fb_pc = "reading"
    /\ fb_k' = fb_k + 1
    /\ fb_pc' = AfterRecv(fb_k + 1, fb_acts)
    /\ UNCHANGED <<fb_acts, fb_results, fb_received>>
    /\ UNCHANGED <<coreVars, notFb>>

\* can.py:86, 100: the frame read carries a critical fault (or a send of
\* can.py:165 fails): the call raises and returns no map
FbRaise ==
    /\ fb_pc = "reading"
    /\ fb_pc' = "raised"
    /\ fb_results' = <<>>
    /\ UNCHANGED <<fb_acts, fb_k, fb_received>>
    /\ UNCHANGED <<coreVars, notFb>>

NextFeedback ==
    \/ FbStart
    \/ \E frame \in FeedbackFrames : FbRecv(frame)
    \/ FbTimeout
    \/ FbRaise

\* the feedback exchanges of a CANInterface
SpecFeedback == InitFeedback /\ [][NextFeedback]_vars

----------------------------------------------------------------------------
(* CANInterface.close: firmware/can.py *)

\* calls of close() in one run
MaxCloses == 2

\* the buses a socket can be held for
CloseBuses == {0, 1, 2}

\* State after CANInterface.__init__: some buses have a socket, each with
\* one actuator (can.py:124-126)
InitClose ==
    /\ InitCoreIdle
    /\ InitCalcIdle
    /\ InitPoolIdle
    /\ InitImuIdle
    /\ InitLogIdle
    /\ InitCmdIdle
    /\ InitLaunchIdle
    /\ InitFbIdle
    /\ InitPmIdle
    /\ cl_pc = "idle"
    /\ cl_sockets \in SUBSET CloseBuses
    /\ cl_actuators = [bus \in cl_sockets |-> <<11 + bus>>]
    /\ cl_todo = <<>>
    /\ cl_attempted = <<>>
    /\ cl_calls = 0
    /\ cl_after = <<>>

\* can.py:238: close() starts to go through self.sockets
IfaceCloseStart ==
    /\ cl_pc = "idle"
    /\ cl_calls < MaxCloses
    /\ cl_pc' = "closing"
    /\ cl_todo' = Sorted(cl_sockets)
    /\ cl_attempted' = <<>>
    /\ UNCHANGED <<cl_sockets, cl_actuators, cl_calls, cl_after>>
    /\ UNCHANGED <<coreVars, notCl>>

\* (mutant) the exception of sock.close() leaves close()
M_Swallowed(exc) == FALSE

\* can.py:239-242: except Exception takes the OSError of sock.close()
Swallowed(exc) == exc \in {"OSError", "Exception"}

\* can.py:239-242: one socket is closed; out: what sock.close() did
IfaceCloseSocket(out) ==
    /\ cl_pc = "closing"
    /\ cl_todo # <<>>
    /\ cl_attempted' = (Head(cl_todo) :> out) @@ cl_attempted
    /\ IF out = "ok" \/ Swallowed(out)
       THEN /\ cl_todo' = Tail(cl_todo)
            /\ UNCHANGED <<cl_pc, cl_calls>>
       ELSE /\ cl_pc' = "raised"
            /\ cl_calls' = cl_calls + 1
            /\ UNCHANGED cl_todo
    /\ UNCHANGED <<cl_sockets, cl_actuators, cl_after>>
    /\ UNCHANGED <<coreVars, notCl>>

\* can.py:243-244: both maps are cleared and close() returns
IfaceCloseClear ==
    /\ cl_pc = "closing"
    /\ cl_todo = <<>>
    /\ cl_sockets' = {}
    /\ cl_actuators' = <<>>
    /\ cl_calls' = cl_calls + 1
    /\ cl_after' = Append(cl_after, [sockets |-> {}, actuators |-> <<>>,
                                     attempted |-> cl_attempted, held |-> cl_sockets])
    /\ cl_pc' = "idle"
    /\ UNCHANGED <<cl_todo, cl_attempted>>
    /\ UNCHANGED <<coreVars, notCl>>

NextClose ==
    \/ IfaceCloseStart
    \/ \E out \in {"ok", "OSError"} : IfaceCloseSocket(out)
    \/ IfaceCloseClear

\* calls of close() on a CANInterface
SpecClose == InitClose /\ [][NextClose]_vars

----------------------------------------------------------------------------
(* ProcessManager: startup/process_manager.py *)

\* subprocesses started in one run
MaxStarts == 3

\* process_manager.py:36-56: two of the names of self.options
ProcessNames == {"display", "qr"}
\* the monitor tasks there can be
MonitorTasks == [name : ProcessNames, process : 1..MaxStarts]

\* State after ProcessManager.__init__ (process_manager.py:30-33)
InitProcs ==
    /\ InitCoreIdle
    /\ InitCalcIdle
    /\ InitPoolIdle
    /\ InitImuIdle
    /\ InitLogIdle
    /\ InitCmdIdle
    /\ InitLaunchIdle
    /\ InitFbIdle
    /\ InitClIdle
    /\ pm_processes = <<>>
    /\ pm_status = <<>>
    /\ pm_monitors = {}
    /\ pm_alive = {}
    /\ pm_started = <<>>

\* process_manager.py:62-68: the request is refused: the name is no option,
\* or its subprocess is there and poll() is None
StartRefused(name) ==
    \/ name \notin ProcessNames
    \/ name \in DOMAIN pm_processes /\ pm_processes[name] \in pm_alive

\* process_manager.py:58-114 start_process; ok: Popen started the
\* subprocess (else it raised and the status tells the error)
StartProcess(name, ok) ==
    /\ Len(pm_started) < MaxStarts
    /\ ~StartRefused(name)
    /\ IF ok
       THEN LET process == Len(pm_started) + 1
            IN  /\ pm_processes' = (name :> process) @@ pm_processes
                /\ pm_status' = (name :> [pid |-> process, running |-> TRUE]) @@ pm_status
                /\ pm_monitors' = pm_monitors \cup {[name |-> name, process |-> process]}
                /\ pm_alive' = pm_alive \cup {process}
                /\ pm_started' = Append(pm_started, name)
       ELSE /\ pm_status' = (name :> [pid |-> 0, running |-> FALSE]) @@ pm_status
            /\ UNCHANGED <<pm_processes, pm_monitors, pm_alive, pm_started>>
    /\ UNCHANGED <<coreVars, notPm>>

\* process_manager.py:116-148 stop_process; out: "ok" when terminate, wait
\* and kill went through (the subprocess has ended then), "Exception" when
\* one of them raised
StopProcess(name, out) ==
    /\ name \in DOMAIN pm_processes
    /\ out \in {"ok", "Exception"}
    /\ out = "Exception" => pm_processes[name] \in pm_alive
    /\ IF out = "ok"
       THEN /\ pm_alive' = pm_alive \ {pm_processes[name]}
            /\ pm_status' = [pm_status EXCEPT ![name].running = FALSE]
            /\ pm_processes' = [n \in DOMAIN pm_processes \ {name} |-> pm_processes[n]]
       ELSE UNCHANGED <<pm_alive, pm_status, pm_processes>>
    /\ UNCHANGED <<pm_monitors, pm_started>>
    /\ UNCHANGED <<coreVars, notPm>>

\* a subprocess ends by itself
ProcessExits(process) ==
    /\ process \in pm_alive
    /\ pm_alive' = pm_alive \ {process}
    /\ UNCHANGED <<pm_processes, pm_status, pm_monitors, pm_started>>
    /\ UNCHANGED <<coreVars, notPm>>

\* process_manager.py:216-226 _monitor_process: after a sleep the task finds
\* that its subprocess has ended and marks the status of the name
MonitorEnds(task) ==
    /\ task \in pm_monitors
    /\ task.process \notin pm_alive
    /\ pm_status' = [pm_status EXCEPT ![task.name].running = FALSE]
    /\ pm_monitors' = pm_monitors \ {task}
    /\ UNCHANGED <<pm_processes, pm_alive, pm_started>>
    /\ UNCHANGED <<coreVars, notPm>>

NextProcs ==
    \/ \E name \in ProcessNames, ok \in BOOLEAN : StartProcess(name, ok)
    \/ \E name \in ProcessNames, out \in {"ok", "Exception"} : StopProcess(name, out)
    \/ \E process \in 1..MaxStarts : ProcessExits(process)
    \/ \E task \in MonitorTasks : MonitorEnds(task)

\* the requests to a ProcessManager, its subprocesses and its monitor tasks
SpecProcs == InitProcs /\ [][NextProcs]_vars

----------------------------------------------------------------------------
(* Claims about the ShutdownManager (SpecManager) *)

\* the registration indexes invoked so far, in order of invocation
InvokedCbs == [k \in 1..Len(invoked) |-> invoked[k].cb]

\* <<n, n-1, ..., 1>>
Descending(n) == [k \in 1..n |-> n + 1 - k]

InTrigger(c) == c \in atTrigger

\* C1 (as claimed): when the process has ended, every cleanup registered
\* before the first trigger has been invoked exactly once, and these
\* invocations occurred in reverse registration order, whatever mix of exit
\* hook, signals and re-entrant triggers started the shutdown.
C1_ExactlyOnceInReverse ==
    ProcEnded => SelectSeq(InvokedCbs, InTrigger) = Descending(Cardinality(atTrigger))

\* C5: no registration is invoked twice, and every invocation is made by the
\* _execute_shutdown call that flipped the in-progress flag, however many
\* re-entrant or concurrent calls are made.
C5_AtMostOnceByFlipper ==
    /\ \A j, k \in 1..Len(invoked) : j # k => invoked[j].cb # invoked[k].cb
    /\ \A k \in 1..Len(invoked) : invoked[k].call = flipper

\* C5 witness: a run in which a second thread called, two signals arrived
\* and the exit hook ran, and two callbacks were invoked.
C5_Witness ==
    ProcEnded /\ auxCalls = 1 /\ signals = 2 /\ execCalls >= 4 /\ Len(invoked) >= 2

\* C6 (as claimed): if the invocation of a callback was left by a failure of
\* any kind, then by the end of the process every callback registered before
\* the trigger has still been invoked and the manager is shutdown-complete.
C6_FailureNeverStopsCleanup ==
    (ProcEnded /\ failed # {}) =>
        /\ shutdown_complete
        /\ \A c \in atTrigger : \E k \in 1..Len(invoked) : invoked[k].cb = c

----------------------------------------------------------------------------
(* Claims about the firmware (Spec) *)

\* C2 (as claimed, for the runs in which no signal arrives): when the process
\* has ended and the shutdown was triggered with the motors enabled, the CAN
\* sockets have been closed and the last PD command sent before they were
\* closed had scaling 0.
C2_ZeroTorqueThenClose ==
    (ProcEnded /\ armedAtTrigger /\ signals = 0) => (sockets_closed /\ zero_before_close)

\* C3 (as claimed): no tick of the control loop is started after a SIGINT or
\* SIGTERM was delivered while the loop was running.
C3_SignalStopsLoop == ~tick_after_signal

\* position of a cleanup in the order ramp-down, socket close, logger drain
Rank(name) ==
    CASE name = "Motor ramp down" -> 1
      [] name = "CAN sockets" -> 2
      [] name = "Logger" -> 3
      [] OTHER -> 0

OnStack(fn) == \E k \in 1..Depth("main") : stacks["main"][k].fn = fn

\* C4: the cleanups are invoked in the order ramp-down, socket close, logger
\* drain, and when all three were registered at the trigger the k-th one
\* invoked is the k-th of that order; the ramp-down callback has been left
\* when the sockets are being closed and the close has been left when the
\* logger is drained; and no driver operation finds a socket to use once
\* close has returned.
C4_RampThenCloseThenLogger ==
    /\ \A j, k \in 1..Len(invoked) :
            j < k => Rank(cleanup_callbacks[invoked[j].cb]) < Rank(cleanup_callbacks[invoked[k].cb])
    /\ Cardinality(atTrigger) = 3 =>
            \A k \in 1..Len(invoked) : Rank(cleanup_callbacks[invoked[k].cb]) = k
    /\ OnStack("close") => ~OnStack("_safe_ramp_down")
    /\ OnStack("Logger._shutdown") => ~OnStack("close") /\ ~OnStack("_safe_ramp_down")
    /\ ~io_after_close

\* C4 witness: the motors were enabled at the trigger, all three cleanups
\* ran, a zero command preceded the close, and the process ended.
C4_Witness ==
    ProcEnded /\ armedAtTrigger /\ Len(invoked) = 3 /\ zero_before_close /\ close_done

\* C8: once a driver operation has raised CriticalFaultError inside a tick,
\* runner is out of the control loop at once, no later step of the loop runs,
\* and by the end of the process the shutdown sequence has been entered.
C8_FaultEndsLoopAndEntersShutdown ==
    /\ tick_fault => ~InLoop
    /\ ~step_after_fault
    /\ (ProcEnded /\ tick_fault) => shutdown_in_progress

\* C8 witness: a tick raised a critical fault, and the process ended with the
\* shutdown sequence run to its end.
C8_Witness == ProcEnded /\ tick_fault /\ shutdown_complete /\ Len(invoked) = 3

----------------------------------------------------------------------------
(* Claims about receive (SpecRecv) *)

Parsed(k) == ParseCanFrame(rx_frames[k])

\* the critical entries of a table whose code equals a value
CriticalHits(faults, value) ==
    {k \in 1..Len(faults) : faults[k].critical /\ faults[k].code = value}

\* the descriptions of the critical entries the k-th frame read matches:
\* in its in-band flags, or in the fault word of an extended-fault frame
CriticalIn(k) ==
    {CAN_ID_FAULT_CODES[j].description : j \in CriticalHits(CAN_ID_FAULT_CODES, Parsed(k).fault_flags)}
    \cup
    (IF Parsed(k).mux = Mux_FAULT_RESPONSE
     THEN {MUX_0x15_FAULT_CODES[j].description : j \in CriticalHits(MUX_0x15_FAULT_CODES, Parsed(k).payload[1])}
     ELSE {})

----------------------------------------------------------------------------
(* Claims about the joint data (SpecJoint) *)

\* C7 (as claimed): whenever a call returns, the map holds, for every
\* actuator that has had a successful read, the record of its most recent
\* successful read (this call's if it responded), never the dummy record, and
\* the driver's last-known entry for it is that record.
C7_LastKnownGoodEntry ==
    jd_answer.returned =>
        \A a \in jd_seen :
            /\ a \in DOMAIN jd_answer.map
            /\ jd_answer.map[a] = jd_good[a]
            /\ jd_answer.map[a] # DummyData(a)
            /\ last_known_feedback[a] = jd_good[a]

----------------------------------------------------------------------------
(* Claims about receive on a bus that keeps delivering (SpecStorm) *)

\* C11 (as claimed): a call of receive that is over has returned a frame,
\* has returned None, or has raised CriticalFaultError, also when every read
\* of the call was answered by a frame of another mux.
C11_ReceiveEndsInFrameAbsentOrFault ==
    rx_pc = "done" => rx_result.kind \in {"frame", "None", "CriticalFaultError"}

----------------------------------------------------------------------------
(* Claims about the fault classifier (SpecRecv) *)

Codes(faults) == {faults[j].code : j \in 1..Len(faults)}

\* the k-th frame read carries no value equal to a code of the table the
\* value is looked up in
Unmatched(k) ==
    /\ Parsed(k).fault_flags \notin Codes(CAN_ID_FAULT_CODES)
    /\ Parsed(k).mux = Mux_FAULT_RESPONSE =>
           /\ Parsed(k).payload[1] \notin Codes(MUX_0x15_FAULT_CODES)
           /\ Parsed(k).payload[2] \notin Codes(MUX_0x15_WARNING_CODES)

\* C12: a frame whose fault values equal no table code (0, or several bits
\* at once such as in-band 0x06 or fault word 0x03) raises no
\* CriticalFaultError; the call goes on as for a clean frame: the frame is
\* returned if it has the expected mux, otherwise skipped, the next read
\* being still due or ended by a timeout.
C12_UnknownCodesIgnored ==
    LET n == Len(rx_frames)
    IN  (n > 0 /\ Unmatched(n)) =>
            IF Parsed(n).mux = rx_expected
            THEN rx_pc = "done" /\ rx_result = [kind |-> "frame", frame |-> Parsed(n)]
            ELSE \/ rx_pc = "recv" /\ rx_result.kind = "pending"
                 \/ rx_pc = "done" /\ rx_result.kind = "None"

\* C12 witness: an extended-fault frame with in-band flags 0x06 and fault
\* word 0x03 was skipped, then a feedback frame with flags 0x06 was returned.
C12_Witness ==
    /\ rx_expected = Mux_FEEDBACK
    /\ Len(rx_frames) = 2
    /\ Parsed(1).mux = Mux_FAULT_RESPONSE
    /\ Parsed(1).fault_flags = 6
    /\ Parsed(1).payload = <<3, 0>>
    /\ Parsed(2).fault_flags = 6
    /\ rx_classified = 1
    /\ rx_result = [kind |-> "frame", frame |-> Parsed(2)]

----------------------------------------------------------------------------
(* Claims about startup (Spec) *)

\* C13: the motors are enabled only in a run whose startup found an
\* actuator and saw no joint angle of magnitude above 2.0 rad, i.e. with
\* pi * max_angle / 65535 <= 2 (333/106 is below pi by less than 1e-4,
\* so for every 16-bit reading the test passes exactly the magnitudes of at
\* most 2.0 rad).
C13_EnabledOnlyNearHome ==
    motors_enabled =>
        /\ startup_obs.checked
        /\ startup_obs.found
        /\ startup_obs.max_angle * 333 <= 131070 * 106

\* C13 witness: the motors were enabled after a startup read that saw a
\* joint at 1.99977 rad, the reading next below the limit.
C13_Witness ==
    /\ motors_enabled
    /\ startup_obs.checked
    /\ startup_obs.found
    /\ startup_obs.max_angle = 41716

\* startup failed: the policy archive was malformed, no actuator was found,
\* or a joint was read further than 2.0 rad from zero
StartupFailed ==
    \/ archive_bad
    \/ startup_obs.checked /\ ~startup_obs.found
    \/ startup_obs.checked /\ startup_obs.max_angle * 333 > 131070 * 106

\* C14 (as claimed): once the exit status is decided, it is 1 if startup
\* failed, and 0 if the run ended without a startup failure, a fault in a
\* tick or a failed cleanup.
C14_ExitCodeTellsStartupFailure ==
    exit_code # -1 =>
        /\ StartupFailed => exit_code = 1
        /\ (~StartupFailed /\ ~tick_fault /\ failed = {}) => exit_code = 0

----------------------------------------------------------------------------
(* Claims about the ramp-down (Spec) *)

\* C15 (as claimed): every ramp-down that reached its zero command issued
\* 30 commands before it, on the angles read at its start; no ramp-down
\* command raised the scale above the one last issued; and disabling the
\* motors is reached only after a ramp-down that sent its zero command.
C15_RampDownThenZeroThenDisable ==
    /\ \A k \in 1..Len(rd_obs.ramps) :
           rd_obs.ramps[k].steps = 30 /\ rd_obs.ramps[k].targets = "read"
    /\ ~rd_obs.raised_scale
    /\ rd_obs.disable_reached => rd_obs.ramps_at_disable # <<>>


\* The position of runner, whatever runs above it on the main thread
RunnerPc ==
    IF \E k \in 1..Depth("main") : stacks["main"][k].fn = "runner"
    THEN stacks["main"][CHOOSE k \in 1..Depth("main") : stacks["main"][k].fn = "runner"].pc
    ELSE "none"

\* The steps of one tick in the order joint read, IMU read, command read,
\* policy step, PD write, bus flush, log record, sleep, after the loop test
TickOrder ==
    <<"loop_test", "t_joints", "t_imu", "t_cmd", "t_policy", "t_action", "t_flush",
      "t_log", "t_sleep">>

\* The loop moves from one step to the next of TickOrder, from the sleep to
\* the loop test, into the loop at the loop test only
TickMove ==
    (RunnerPc' \in LoopPcs /\ RunnerPc' # RunnerPc) =>
        \/ \E k \in 1..(Len(TickOrder) - 1) :
               RunnerPc = TickOrder[k] /\ RunnerPc' = TickOrder[k + 1]
        \/ RunnerPc = "t_sleep" /\ RunnerPc' = "loop_test"
        \/ RunnerPc \notin LoopPcs /\ RunnerPc' = "loop_test"

\* A record is queued by the log step and by no other
LogMove ==
    log_records' # log_records =>
        /\ RunnerPc = "t_log"
        /\ RunnerPc' = "t_sleep"
        /\ Len(log_records') = Len(log_records) + 1

\* C17: the steps of a tick are taken in the order joint read, IMU read,
\* command read, policy step, PD write, bus flush, log record, sleep; no
\* tick starts before the sleep of the one before it has finished; every
\* tick that reaches its log step queues exactly one record, and the
\* records carry the tick indexes 0, 1, 2, ... in sequence.
C17_TickOrderAndOneRecordPerTick ==
    /\ [][TickMove /\ LogMove]_vars
    /\ [](\A k \in 1..Len(log_records) :
              log_records[k] = IF k = 1 THEN 0 ELSE log_records[k - 1] + 1)

\* two ticks have run to the end of their sleep
C17_Witness ==
    /\ log_records = <<0, 1>>
    /\ HasTop("main", "runner", "loop_test")

----------------------------------------------------------------------------
(* Claims about the operations of can.py on the buses (SpecDriver) *)

\* the log of the last operation
OpLog == can_op.log

\* steps j and k of the log are the same kind of step for the same actuator
SameStep(j, k) ==
    /\ OpLog[j].ev = OpLog[k].ev
    /\ OpLog[j].bus = OpLog[k].bus
    /\ OpLog[j].id = OpLog[k].id

\* the log holds a step of kind ev for actuator slot
Has(ev, slot) ==
    \E k \in 1..Len(OpLog) :
        OpLog[k].ev = ev /\ OpLog[k].bus = slot[1] /\ OpLog[k].id = slot[2]

\* C16: enable_and_home first enables the motors and then issues exactly 30
\* PD commands on the home targets; their scales are strictly increasing,
\* the first about 0.001 times and the last 1.0 times max_scaling; every
\* scale lies in [0, 1] and does not exceed max_scaling.
C16_HomingRamp ==
    /\ Len(home_cmds) <= 30
    /\ can_pc \in {"sine_feedback", "sine_pd", "sine_flush"} => Len(home_cmds) = 30
    /\ \A k \in 1..Len(home_cmds) :
           /\ home_cmds[k].enabled
           /\ home_cmds[k].targets = "home"
           /\ home_cmds[k].scale >= 0
           /\ home_cmds[k].scale <= 1000000
           /\ home_cmds[k].scale <= max_scaling
           /\ k > 1 => home_cmds[k - 1].scale < home_cmds[k].scale
    /\ home_cmds # <<>> => Abs(home_cmds[1].scale * 1000 - max_scaling) * 100 <= max_scaling
    /\ Len(home_cmds) = 30 => home_cmds[30].scale = max_scaling

\* homing has run to its end at max_scaling 0.1
C16_Witness ==
    /\ can_pc = "sine_feedback"
    /\ Len(home_cmds) = 30
    /\ max_scaling = 100000
    /\ can_enabled

\* C18: in one feedback exchange the requests of tranche i go to the i-th
\* actuator of every bus that has one and are all sent before any response
\* of tranche i is read; tranche i is finished before tranche i+1 begins;
\* no actuator gets two requests or two receive calls, and an exchange that
\* returns has made exactly one of each for every discovered actuator.
C18_FeedbackByTranche ==
    can_op.name = "get_actuator_feedback" =>
        /\ \A k \in 1..Len(OpLog) :
               /\ OpLog[k].bus \in DOMAIN actuators
               /\ OpLog[k].part \in 1..Len(actuators[OpLog[k].bus])
               /\ actuators[OpLog[k].bus][OpLog[k].part] = OpLog[k].id
               /\ OpLog[k].ev = "recv" =>
                      \A bus \in DOMAIN actuators :
                          OpLog[k].part <= Len(actuators[bus]) =>
                              \E j \in 1..(k - 1) :
                                  /\ OpLog[j].ev = "send"
                                  /\ OpLog[j].bus = bus
                                  /\ OpLog[j].part = OpLog[k].part
        /\ \A j, k \in 1..Len(OpLog) :
               j < k =>
                   /\ OpLog[j].part <= OpLog[k].part
                   /\ (OpLog[j].part = OpLog[k].part /\ OpLog[j].ev = "recv")
                          => OpLog[k].ev = "recv"
                   /\ ~SameStep(j, k)
        /\ can_op.returned =>
               \A slot \in Slots(actuators) : Has("send", slot) /\ Has("recv", slot)

\* an exchange with two actuators on bus 0 and one on bus 1 has returned,
\* one of its reads having timed out
C18_Witness ==
    /\ can_op.name = "get_actuator_feedback"
    /\ can_op.returned
    /\ DOMAIN actuators = {0, 1}
    /\ Len(actuators[0]) = 2
    /\ Len(OpLog) = 6
    /\ \E k \in 1..Len(OpLog) : OpLog[k].res = "None"

\* C19: set_pd_targets sends a PD frame only to identifiers of the command
\* map that are discovered actuators, never two to the same actuator, and
\* all of them before the first receive call; a call that returns has sent
\* one frame to, and made one receive call for, every such actuator; a
\* missing response does not end the call.
C19_PdTargetsSendThenReceive ==
    can_op.name = "set_pd_targets" =>
        /\ \A k \in 1..Len(OpLog) :
               /\ OpLog[k].id \in can_op.actions
               /\ <<OpLog[k].bus, OpLog[k].id>> \in Slots(actuators)
               /\ OpLog[k].ev = "send" => OpLog[k].mux = Mux_CONTROL
               /\ OpLog[k].ev = "recv" =>
                      \A slot \in Slots(actuators) :
                          slot[2] \in can_op.actions =>
                              \E j \in 1..(k - 1) :
                                  /\ OpLog[j].ev = "send"
                                  /\ OpLog[j].bus = slot[1]
                                  /\ OpLog[j].id = slot[2]
               /\ (OpLog[k].res = "None" /\ k = Len(OpLog)) => can_op.returned
        /\ \A j, k \in 1..Len(OpLog) :
               j < k => (OpLog[j].ev = "recv" => OpLog[k].ev = "recv") /\ ~SameStep(j, k)
        /\ can_op.returned =>
               \A slot \in Slots(actuators) :
                   slot[2] \in can_op.actions => Has("send", slot) /\ Has("recv", slot)

\* a command for joints 11 and 12 has returned on a robot where 11 and 14
\* were discovered on bus 0 and 12 was not discovered; the response timed out
C19_Witness ==
    /\ can_op.name = "set_pd_targets"
    /\ can_op.returned
    /\ can_op.actions = {11, 12}
    /\ DOMAIN actuators = {0}
    /\ actuators[0] = <<11, 14>>
    /\ Len(OpLog) = 2
    /\ OpLog[2].res = "None"

\* the identifiers of the ping responses of a bus, in order of arrival
PingResponses(bus) ==
    LET onBus(e) == e.bus = bus
        events == SelectSeq(OpLog, onBus)
    IN  [k \in 1..Len(events) |-> events[k].id]

\* C20: after discovery the identifier list stored for every bus is strictly
\* ascending, whatever the order and multiplicity of the ping responses, and
\* holds the identifiers that answered.
C20_StoredListsStrictlyAscending ==
    /\ \A bus \in DOMAIN actuators :
           /\ actuators[bus] # <<>>
           /\ \A j, k \in 1..Len(actuators[bus]) :
                  j < k => actuators[bus][j] < actuators[bus][k]
    /\ (can_op.name = "_find_actuators" /\ can_op.returned) =>
           \A bus \in Buses :
               IF PingResponses(bus) = <<>>
               THEN bus \notin DOMAIN actuators
               ELSE /\ bus \in DOMAIN actuators
                    /\ Range(actuators[bus]) = Range(PingResponses(bus))

\* the scan of bus 0 got the responses 14, 11, 14 and stored [11, 14]
C20_Witness ==
    /\ can_op.name = "_find_actuators"
    /\ can_op.returned
    /\ PingResponses(0) = <<14, 11, 14>>
    /\ actuators[0] = <<11, 14>>

----------------------------------------------------------------------------
(* Claims about the codec and the conversions (SpecCodec, SpecConvert, SpecPd) *)

C22_ConversionRoundTrip ==
    (calc_pc = "done" /\ "field" \in DOMAIN calc_in) =>
        \A r \in Block(calc_in.first) : Abs(calc_out[2][r] - r) <= 1

\* the angle of a Robstride03 has been through the round trip on the first
\* block of raw values; the rounding cost raw value 1 one unit and 0 none
C22_Witness ==
    /\ calc_pc = "done"
    /\ "field" \in DOMAIN calc_in
    /\ calc_in.actuator_type = "Robstride03"
    /\ calc_in.field = "angle"
    /\ calc_in.first = 0
    /\ calc_out[2][1] = 0
    /\ calc_out[2][0] = 0

\* C30: building a PD command frame is total over target angles: for every
\* target angle, also outside the endpoints of the family, the wire value
\* of the angle is an integer in 0..65535 and a frame is produced.
C30_PdFrameTotal ==
    (calc_pc = "done" /\ "angle" \in DOMAIN calc_in) =>
        /\ calc_out[1].kind = "frame"
        /\ FitsU16(calc_out[1].raw_angle)

----------------------------------------------------------------------------
(* Claims about the worker-pool driver (SpecPool) *)

\* C23: at no time do two operations execute concurrently on the socket of
\* the same bus.
C23_OneOperationPerBus ==
    \A w1, w2 \in DOMAIN pool_workers :
        (w1 # w2 /\ pool_workers[w1] # <<>> /\ pool_workers[w2] # <<>>)
            => pool_workers[w1].bus # pool_workers[w2].bus

----------------------------------------------------------------------------
(* Claims about the IMU's shared-memory record (SpecImu) *)

\* C24: whatever the interleaving of the sampling process and the control
\* loop, every record the loop reads from the shared-memory region is the
\* initial record or exactly one record written by a single complete
\* write: never a mixture of two writes.
C24_NoTornRecord ==
    (imu_result # <<>> /\ imu_result.kind = "record")
        => imu_result.record \in {ZeroRecord} \cup imu_written

\* a read has returned the record of the second packet, a quaternion packet
\* after a gyro packet, while the sampling process is writing the third
C24_Witness ==
    /\ imu_result # <<>>
    /\ imu_result.kind = "record"
    /\ imu_result.record = [timestamp |-> 2, gyro |-> 1, quaternion |-> 2]
    /\ imu_proc.pc = "gyro"
    /\ imu_proc.packets = 3

----------------------------------------------------------------------------
(* Claims about the Logger (SpecLogger) *)

\* C25: Logger._shutdown always returns after a bounded wait, also when the
\* worker thread has died or is stalled with records still in the queue:
\* _shutdown is never left waiting for records that no thread will mark
\* done.
C25_ShutdownReturns ==
    ~(log_shutdown = "queue_join" /\ log_worker.pc = "dead" /\ log_unfinished > 0)

----------------------------------------------------------------------------
(* Claims about what leaves a receive inside a driver operation (SpecStorm) *)

\* the k-th frame read carries no critical code, in band or in its fault
\* words
Harmless(k) ==
    /\ CheckForFaults(CAN_ID_FAULT_CODES, Parsed(k).fault_flags,
                      Parsed(k).actuator_can_id).kind = "ok"
    /\ Parsed(k).mux = Mux_FAULT_RESPONSE =>
           ProcessFaultResponse(Parsed(k).payload, Parsed(k).actuator_can_id).kind = "ok"

\* C26: no receive timeout, malformed frame, frame of an unexpected mux or
\* non-critical fault makes an exception leave a driver operation: the
\* receive made by get_actuator_feedback, set_pd_targets or flush_can_busses
\* (none of which catches anything) ends with a frame or with None whenever
\* no frame it read carried a critical fault.
C26_NoExceptionLeavesOperation ==
    (rx_pc = "done" /\ rx_expected = Mux_FEEDBACK /\ \A k \in 1..Len(rx_frames) : Harmless(k))
        => rx_result.kind \in {"frame", "None"}

----------------------------------------------------------------------------
(* Claims about the commands after a ramp-down (Spec) *)

\* C27: once a ramp-down of the shutdown has sent its final PD command with
\* scaling 0, no PD command with a positive scaling goes out afterwards in
\* the same process, also when both the ramp-down of runner's finally block
\* and the ramp-down callback of the ShutdownManager run: from then on the
\* last command on the bus stays a zero command.
C27_NoPositiveAfterFinalZero ==
    [][(rd_obs.ramps # <<>> /\ pd_zero_sent) => pd_zero_sent']_vars

----------------------------------------------------------------------------
(* Claims about the progress of the shutdown (SpecManager) *)

\* thread t is about to take the manager's lock (shutdown.py:66, 79, 102)
\* while a frame lower in its own stack holds it: the lock is not
\* re-entrant, so t waits for itself
WaitsForOwnLock(t) ==
    /\ Depth(t) > 0
    /\ Top(t).fn \in {"register_cleanup", "_execute_shutdown"}
    /\ Top(t).pc \in {"acquire", "enter", "enter2"}
    /\ lock # NoLock
    /\ lock[1] = t

\* C28: once shutdown is triggered it runs to the shutdown-complete state
\* without deadlock, wherever the trigger arrives: no thread is left waiting
\* for the manager's lock it holds itself (a signal handled inside
\* register_cleanup), and a process that has ended after the shutdown began
\* is shutdown-complete (a second signal while a callback runs).
C28_ShutdownRunsToComplete ==
    /\ \A t \in Threads : ~WaitsForOwnLock(t)
    /\ (ProcEnded /\ shutdown_in_progress) => shutdown_complete

----------------------------------------------------------------------------
(* Claims about the disabling of the motors (Spec) *)

\* C29: when the ramp-down cleanup has run with the motors enabled and got
\* past its ramp, by completing it or by catching the exception of the
\* flush or of the ramp, exactly one frame with the motor-disable mux has
\* been sent to every discovered actuator.
C29_DisableFrameToEveryActuator ==
    (rd_obs.disable_reached /\ rd_obs.disable_due) => rd_obs.disable_frames = 1

----------------------------------------------------------------------------
(* Claims about the discovery of the buses (SpecDriver) *)

----------------------------------------------------------------------------
(* Claims about the combined result of the worker-pool driver (SpecPool) *)

\* async_can has returned from a call that waited for its futures
Joined == pool_caller.pc = "idle" /\ "combined" \in DOMAIN pool_caller

\* C32: a bus work item that failed or did not finish within the join
\* timeout contributes nothing to the combined result and does not keep
\* async_can from returning it; the buses whose work item returned a value
\* in time are all in the result.
C32_FailedOrLateBusIsAMiss ==
    /\ "combined" \in DOMAIN pool_caller =>
           pool_caller.combined \cap pool_caller.missed = {}
    /\ (Joined /\ HasResult(pool_caller.name)) =>
           pool_caller.combined = Buses \ pool_caller.missed

\* a feedback call has returned the result of bus 1 alone: the work item of
\* bus 0 raised
C32_Witness ==
    /\ Joined
    /\ pool_caller.name = "get_actuator_feedback"
    /\ pool_caller.combined = {1}
    /\ pool_caller.missed = {0}
    /\ \E item \in pool_raised : item.bus = 0 /\ item.call = pool_calls

----------------------------------------------------------------------------
(* Claims about the records of the Logger (SpecLogger) *)

\* C33: the logger's queue is bounded: the number of records waiting in it
\* never exceeds a fixed capacity, however far the control loop runs ahead
\* of the worker; a capacity smaller than the number of records the control
\* loop logs is never exceeded.
C33_QueueBounded == Len(log_queue) < MaxLogs

\* C34: every record passed to log before _shutdown is called has been
\* written to the file exactly once, in the order logged, by the time
\* _shutdown returns.
C34_AllRecordsWrittenAtReturn ==
    log_shutdown = "returned" => log_file = [k \in 1..log_puts |-> k]

----------------------------------------------------------------------------
(* Claims about the command source (SpecCmd) *)

Magnitude(v) == IF v < 0 THEN -v ELSE v

\* C35: whatever the interleaving of the reader thread and the control
\* loop, every command value the loop obtains is already clamped: the
\* magnitude of a velocity command never exceeds 0.8 and that of any other
\* command never exceeds 0.3.
C35_CommandsClamped ==
    cmd_out # <<>> => \A name \in CommandNames : Magnitude(cmd_out[name]) <= KeyClamp(name)

----------------------------------------------------------------------------
(* Claims about the launch interface's permissions (Spec) *)

\* a permission step ended with an abort or with the timeout
Refused == "refused" \in {launch_obs.motor, launch_obs.policy}

\* C37 as stated: the motors are never enabled unless the launch interface
\* granted the motor permission, the control loop never starts unless the
\* policy-start permission was granted afterwards, and an abort, refusal or
\* timeout at either step ends the run without any later enable or PD
\* command.
C37_PermissionsGateMotion ==
    /\ motors_enabled => launch_obs.motor = "enable_motors"
    /\ RunnerPc \in LoopPcs =>
           launch_obs.motor = "enable_motors" /\ launch_obs.policy = "start_policy"
    /\ Refused => RunnerPc \notin {"enable", "home"}
    /\ Refused => ~pd_zero_sent /\ rd_obs.ramps = <<>>

\* C37 (amended): the motors are never enabled unless the launch interface
\* granted the motor permission, the control loop never starts unless the
\* policy-start permission was granted afterwards, and an abort, refusal or
\* timeout at either step ends the run without any later enable, homing
\* command or tick of the control loop; the PD commands sent afterwards are
\* those of the ramp-downs of the exit path only.
C37_PermissionsGateEnableAndLoop ==
    /\ motors_enabled => launch_obs.motor = "enable_motors"
    /\ RunnerPc \in {"enable", "home", "policy_permission"} =>
           launch_obs.motor = "enable_motors"
    /\ RunnerPc \in LoopPcs =>
           launch_obs.motor = "enable_motors" /\ launch_obs.policy = "start_policy"
    /\ Refused => RunnerPc \notin {"enable", "home"} \cup LoopPcs
    /\ Refused => step_id = 0
    /\ launch_obs.motor = "refused" => ~motors_enabled /\ launch_obs.policy = ""

\* the motors were enabled with the permission, the policy start timed out
\* and the run has ended with the ramp-down
C37_Witness ==
    /\ launch_obs = [motor |-> "enable_motors", policy |-> "refused"]
    /\ motors_enabled
    /\ rd_obs.ramps # <<>>

----------------------------------------------------------------------------
(* Claims about the feedback map (SpecFeedback) *)

\* the frames read so far in the exchange
FramesRead == {fb_received[k].frame : k \in 1..Len(fb_received)}

\* C38: the feedback map of an exchange holds only actuators of which a
\* frame was received in that exchange, each under the identifier the
\* received frame carries; a late response of actuator b read while a was
\* awaited is stored under b, never under a.
C38_StoredUnderFrameIdentifier ==
    fb_pc \in {"reading", "returned"} =>
        /\ DOMAIN fb_results = {frame.actuator_can_id : frame \in FramesRead}
        /\ \A id \in DOMAIN fb_results :
               /\ fb_results[id] \in FramesRead
               /\ fb_results[id].actuator_can_id = id
        /\ \A k \in 1..Len(fb_received) :
               LET a == fb_received[k].awaited
                   b == fb_received[k].frame.actuator_can_id
               IN  a # b =>
                       /\ b \in DOMAIN fb_results
                       /\ a \in DOMAIN fb_results =>
                              fb_results[a] # fb_received[k].frame

\* an exchange has returned in which the response of 12 was read while 11
\* was awaited, and no frame of 11 came
C38_Witness ==
    /\ fb_pc = "returned"
    /\ \E k \in 1..Len(fb_received) :
           fb_received[k].awaited = 11 /\ fb_received[k].frame.actuator_can_id = 12
    /\ 11 \notin DOMAIN fb_results
    /\ 12 \in DOMAIN fb_results

----------------------------------------------------------------------------
(* Claims about CANInterface.close (SpecClose) *)

\* C39: closing the interface is idempotent: a second close raises nothing
\* and leaves the state the first close left, the socket map and the
\* actuator map both empty; a socket that fails to close does not keep
\* close() from closing the others.
C39_CloseIdempotent ==
    /\ cl_pc # "raised"
    /\ cl_pc = "idle" /\ cl_calls > 0 => cl_sockets = {} /\ cl_actuators = <<>>
    /\ \A k \in 1..Len(cl_after) : DOMAIN cl_after[k].attempted = cl_after[k].held
    /\ Len(cl_after) = cl_calls
    /\ Len(cl_after) >= 2 =>
           /\ cl_after[2].sockets = cl_after[1].sockets
           /\ cl_after[2].actuators = cl_after[1].actuators

\* close() has returned twice; the first call went through three sockets,
\* the first of which failed to close while the others closed
C39_Witness ==
    /\ cl_pc = "idle"
    /\ Len(cl_after) = 2
    /\ cl_after[1].held = CloseBuses
    /\ cl_after[1].attempted = (0 :> "OSError") @@ (1 :> "ok") @@ (2 :> "ok")
    /\ cl_after[2].held = {}

----------------------------------------------------------------------------
(* Claims about the ProcessManager (SpecProcs) *)

\* the subprocesses started under a name
StartedAs(name) == {process \in 1..Len(pm_started) : pm_started[process] = name}

\* C40, first part: at most one subprocess of a name is alive at any time.
C40_OneLivePerName ==
    \A name \in ProcessNames : Cardinality(StartedAs(name) \cap pm_alive) <= 1

\* C40: at most one subprocess of a name is alive at any time (a start
\* under a running name is refused), and the running status reported for a
\* name is true whenever the subprocess started last under that name is
\* alive.
C40_OneLiveAndStatusTellsIt ==
    /\ C40_OneLivePerName
    /\ \A name \in ProcessNames :
           (StartedAs(name) # {} /\ Max(StartedAs(name)) \in pm_alive)
               => pm_status[name].running

====
